---- MODULE Spec2Model ----
(***************************************************************************)
(* Order-lifecycle and table-concurrency core of the restaurant POS        *)
(* backend: the table, order and payment controllers, and updateProduct   *)
(* of the product controller, running as concurrent request handlers      *)
(* against one MySQL/InnoDB store.                                         *)
(*                                                                         *)
(* The store's variables always hold COMMITTED data.  A handler that runs  *)
(* inside db.transaction is Begin (the request arrives; its SELECT ... FOR *)
(* UPDATE takes the row lock and its reads are kept in the session, or, if *)
(* another transaction holds the row, it waits), Read (the waiting request *)
(* gets the row) and Commit (its checks run on what it read; it either     *)
(* throws, which rolls back, or writes and commits).  A row lock is held   *)
(* from the read to Commit.  A handler that uses db.query (autocommit) is  *)
(* Begin (plain SELECT, no lock, and its checks) and Write (one UPDATE,    *)
(* which waits for the row lock like any other write).                     *)
(*                                                                         *)
(* Money stored in DECIMAL(n,2) columns is an integer number of cents;     *)
(* money arriving in a request body is an integer number of mills (tenths  *)
(* of a cent), because the route validators accept any float.  Time is     *)
(* counted in ticks of TickMs milliseconds; requests in flight finish      *)
(* within one tick.  Ticket codes from generateOrderNumber and             *)
(* generatePaymentNumber are taken to be distinct.                         *)
(***************************************************************************)
EXTENDS Integers, Sequences, FiniteSets, TLC

VARIABLES tables, orders, items, products, payments, sess, now, pair

vars == <<tables, orders, items, products, payments, sess, now, pair>>

(***************************************************************************)
(* Bounds of the model.                                                    *)
(***************************************************************************)
MaxOrders == 2
MaxItems == 2
MaxTicks == 2
MaxQty == 2
InitStock == 2
MaxStock == 3

(***************************************************************************)
(* Actors, identifiers and the values SQL NULL takes in each column.       *)
(***************************************************************************)
Sessions == DOMAIN sess

Users == {"ann", "bob", "mod", "adm", "csh"}

RoleOf(u) ==
  CASE u = "ann" -> "server"
    [] u = "bob" -> "server"
    [] u = "mod" -> "moderator"
    [] u = "adm" -> "admin"
    [] u = "csh" -> "cashier"

NullUser == "null"
NullId == 0
NullTime == 0 - 1

Tables == {1}
TableIds == {1, 2}

\* payment_methods: method 1 is active, method 2 has been deactivated
ActiveMethods == {1}

\* products: 1 is stock-tracked at the catalog price, 2 is variable-price
\* and untracked, 3 has been deactivated (is_active = FALSE)
Catalog ==
  [p \in {1, 2, 3} |->
     [price |-> IF p = 1 THEN 2 ELSE 1,
      stock_quantity |-> IF p = 1 THEN InitStock ELSE NullId,
      track_stock |-> p = 1,
      variable_price |-> p = 2,
      is_available |-> TRUE,
      is_active |-> p # 3]]

\* unit_price of a request body: absent, a number (in thousandths), or text
\* that is not a number
NoPrice == [given |-> FALSE, numeric |-> FALSE, value |-> 0]

Supplied(v) == [given |-> TRUE, numeric |-> TRUE, value |-> v]

NotNumeric == [given |-> TRUE, numeric |-> FALSE, value |-> 0]

ValidStatuses == {"available", "occupied", "reserved", "maintenance"}

TickMs == 15 * 60 * 1000

Time(t) == t * TickMs

shortLockAge == 15 * 60 * 1000

maxLockAge == 30 * 60 * 1000

(***************************************************************************)
(* Rows.                                                                   *)
(***************************************************************************)
NewTable ==
  [status |-> "available", current_order_id |-> NullId,
   locked_by_user_id |-> NullUser, locked_at |-> NullTime, is_active |-> TRUE]

NewOrder(tableId, serverId, guests) ==
  [table_id |-> tableId, server_id |-> serverId, status |-> "open",
   subtotal |-> 0, tax_amount |-> 0, discount_amount |-> 0, total_amount |-> 0,
   guest_count |-> guests]

NewItem(orderId, productId, quantity, unitPrice, subtotal) ==
  [order_id |-> orderId, product_id |-> productId, quantity |-> quantity,
   unit_price |-> unitPrice, subtotal |-> subtotal, discount_amount |-> 0,
   status |-> "pending"]

NewPayment(orderId, methodId, cashierId, due, paid, change, tip) ==
  [order_id |-> orderId, payment_method_id |-> methodId, cashier_id |-> cashierId,
   amount_due |-> due, amount_paid |-> paid, change_amount |-> change,
   tip_amount |-> tip, status |-> "completed"]

(***************************************************************************)
(* Money.  A DECIMAL(n,2) column holds cents; a JavaScript number holds    *)
(* mills.  parseFloat of a column is exact; a number bound to a DECIMAL    *)
(* column is rounded to the cent by MySQL (half away from zero).           *)
(***************************************************************************)
parseFloat(cents) == cents * 10

ToDecimal(mills) == (mills + 5) \div 10

(***************************************************************************)
(* Sessions: one request in flight per session.  A request that finds the  *)
(* row it selects FOR UPDATE locked by another transaction waits at        *)
(* "start"; otherwise its reads are done as it arrives.                    *)
(***************************************************************************)
(***************************************************************************)
(* JavaScript numbers.  amountDue + parseFloat(tip_amount) is an IEEE-754  *)
(* double addition of the doubles nearest to the two decimal amounts; its  *)
(* result is the double nearest to the decimal sum, or the next double     *)
(* above or below it.  The two sets list, for whole-cent amounts from 0.01 *)
(* to MaxFloatCents / 100 (in thousandths), every pair whose double sum    *)
(* lies above, resp. below, the double nearest to the decimal sum.         *)
(***************************************************************************)
MaxFloatCents == 12

FloatAmounts == {10 * c : c \in 1..MaxFloatCents}

SumRoundsUp ==
  {
    <<10, 50>>, <<20, 70>>, <<20, 100>>, <<40, 70>>, <<50, 10>>, <<50, 70>>,
    <<50, 100>>, <<70, 20>>, <<70, 40>>, <<70, 50>>, <<70, 80>>, <<80, 70>>,
    <<100, 20>>, <<100, 50>>, <<100, 110>>, <<110, 100>> }

SumRoundsDown ==
  {
    <<10, 60>>, <<10, 90>>, <<20, 120>>, <<50, 120>>, <<60, 10>>,
    <<60, 110>>, <<80, 90>>, <<90, 10>>, <<90, 80>>, <<110, 60>>,
    <<110, 120>>, <<120, 20>>, <<120, 50>>, <<120, 110>> }

exactSumError(a, b) == 0

\* the sign of (a + b computed in doubles) - (the double nearest to a + b)
SumError(a, b) ==
  IF a = 0 \/ b = 0 THEN 0
  ELSE CASE <<a, b>> \in SumRoundsUp -> 1
         [] <<a, b>> \in SumRoundsDown -> 0 - 1
         [] <<a, b>> \in (FloatAmounts \X FloatAmounts) \ (SumRoundsUp \cup SumRoundsDown) -> 0

\* a + b as JavaScript computes it
FloatAdd(a, b) == [exact |-> a + b, err |-> SumError(a, b)]

\* x < sum, for a decimal amount x and a sum computed in doubles
LessThanSum(x, sum) == x < sum.exact \/ (x = sum.exact /\ sum.err > 0)

\* a request body of updateProduct that names no field: <<>> stands for an
\* undefined field, <<v>> for a field given as v
NoUpdates == [price |-> <<>>, variable_price |-> <<>>]

Blank ==
  [pc |-> "idle", op |-> "none", actor |-> NullUser, tbl |-> NullId,
   ord |-> NullId, itm |-> NullId, prod |-> NullId, qty |-> 0,
   price |-> NoPrice, paid |-> 0, tip |-> 0, method |-> NullId,
   st |-> "none", snapT |-> <<>>, snapO |-> <<>>, snapI |-> <<>>,
   snapP |-> <<>>, upd |-> NoUpdates, res |-> "none"]

Done(r) == [Blank EXCEPT !.res = r]

Request(o, u) == [Blank EXCEPT !.pc = "start", !.op = o, !.actor = u]

AllIdle == \A s \in Sessions : sess[s].pc = "idle"

\* A request that arrives while another is in flight runs concurrently with
\* it; pair remembers the two requests and the tables they found.
Arrive(s, r) ==
  /\ sess[s].pc = "idle"
  /\ sess' = [sess EXCEPT ![s] = r]
  /\ pair' = IF \E x \in Sessions \ {s} : sess[x].pc # "idle"
               THEN <<[reqs |-> [x \in Sessions |-> [sess'[x] EXCEPT !.pc = "start", !.snapT = <<>>,
                                                    !.snapO = <<>>, !.snapI = <<>>,
                                                    !.snapP = <<>>]],
                       tables |-> tables]>>
               ELSE <<>>

Finish(s, r) == sess' = [sess EXCEPT ![s] = Done(r)]

(***************************************************************************)
(* Row locks of restaurant_tables (SELECT ... FOR UPDATE).                 *)
(***************************************************************************)
TableLockers == {"lockTable", "unlockTable", "createOrder"}

HoldsTableRow(s, t) ==
  /\ sess[s].pc = "locked"
  /\ sess[s].op \in TableLockers
  /\ sess[s].tbl = t
  /\ t \in Tables

TableRowNeverLocked(s, t) == TRUE

TableRowFree(s, t) == \A x \in Sessions \ {s} : ~HoldsTableRow(x, t)

SelectTable(t) == IF t \in Tables THEN <<tables[t]>> ELSE <<>>

\* the request as it stands once it has asked for the row of table t
SelectTableForUpdate(s, r, t) ==
  IF TableRowFree(s, t)
    THEN [r EXCEPT !.pc = "locked", !.snapT = SelectTable(t)]
    ELSE [r EXCEPT !.pc = "start"]

TableRead(s, o) ==
  /\ sess[s].pc = "start"
  /\ sess[s].op = o
  /\ TableRowFree(s, sess[s].tbl)
  /\ sess' = [sess EXCEPT ![s] = SelectTableForUpdate(s, sess[s], sess[s].tbl)]
  /\ UNCHANGED <<tables, orders, items, products, payments, now, pair>>

LockedByAnyone(row, u) ==
  /\ row.locked_by_user_id # NullUser
  /\ Time(now) - Time(row.locked_at) < maxLockAge

\* lockAge < maxLockAge, with lockAge = Date.now() - new Date(locked_at)
LockedByOther(row, u) ==
  /\ row.locked_by_user_id # NullUser
  /\ row.locked_by_user_id # u
  /\ Time(now) - Time(row.locked_at) < maxLockAge

(***************************************************************************)
(* lockTable: POST /api/tables/:id/lock                                    *)
(***************************************************************************)
LockTableBegin(s, u, t) ==
  /\ Arrive(s, SelectTableForUpdate(s, [Request("lockTable", u) EXCEPT !.tbl = t], t))
  /\ UNCHANGED <<tables, orders, items, products, payments, now>>

LockTableRead(s) == TableRead(s, "lockTable")

LockTableCommit(s) ==
  /\ sess[s].pc = "locked"
  /\ sess[s].op = "lockTable"
  /\ LET t == sess[s].tbl
         u == sess[s].actor
         snap == sess[s].snapT
     IN \/ /\ snap = <<>>
           /\ Finish(s, "NotFound")
           /\ UNCHANGED tables
        \/ /\ snap # <<>>
           /\ LockedByOther(snap[1], u)
           /\ Finish(s, "Conflict")
           /\ UNCHANGED tables
        \/ /\ snap # <<>>
           /\ ~LockedByOther(snap[1], u)
           /\ tables' = [tables EXCEPT ![t].locked_by_user_id = u,
                                       ![t].locked_at = now]
           /\ Finish(s, "ok")
  /\ UNCHANGED <<orders, items, products, payments, now, pair>>

(***************************************************************************)
(* unlockTable: POST /api/tables/:id/unlock                                *)
(***************************************************************************)
notLockHolder(row, u) == row.locked_by_user_id # u

\* table.locked_by_user_id !== userId && !isAdmin
notLockHolderNorAdmin(row, u) ==
  row.locked_by_user_id # u /\ RoleOf(u) # "admin"

ReleaseTable(row) ==
  [row EXCEPT !.status = "available", !.current_order_id = NullId,
              !.locked_by_user_id = NullUser, !.locked_at = NullTime]

\* UPDATE restaurant_tables SET locked_by_user_id = NULL, locked_at = NULL
ClearLock(row) ==
  [row EXCEPT !.locked_by_user_id = NullUser, !.locked_at = NullTime]

UnlockTableBegin(s, u, t) ==
  /\ Arrive(s, SelectTableForUpdate(s, [Request("unlockTable", u) EXCEPT !.tbl = t], t))
  /\ UNCHANGED <<tables, orders, items, products, payments, now>>

UnlockTableRead(s) == TableRead(s, "unlockTable")

UnlockTableCommit(s) ==
  /\ sess[s].pc = "locked"
  /\ sess[s].op = "unlockTable"
  /\ LET t == sess[s].tbl
         u == sess[s].actor
         snap == sess[s].snapT
     IN \/ /\ snap = <<>>
           /\ Finish(s, "NotFound")
           /\ UNCHANGED tables
        \/ /\ snap # <<>>
           /\ notLockHolderNorAdmin(snap[1], u)
           /\ Finish(s, "Forbidden")
           /\ UNCHANGED tables
        \/ /\ snap # <<>>
           /\ ~notLockHolderNorAdmin(snap[1], u)
           /\ snap[1].current_order_id # NullId /\ snap[1].status = "occupied"
           /\ Finish(s, "BadRequest")
           /\ UNCHANGED tables
        \/ /\ snap # <<>>
           /\ ~notLockHolderNorAdmin(snap[1], u)
           /\ ~(snap[1].current_order_id # NullId /\ snap[1].status = "occupied")
           /\ tables' = [tables EXCEPT ![t] = ClearLock(tables[t])]
           /\ Finish(s, "ok")
  /\ UNCHANGED <<orders, items, products, payments, now, pair>>

(***************************************************************************)
(* updateTableStatus: PATCH /api/tables/:id/status (no transaction: a      *)
(* plain SELECT, then one autocommit UPDATE)                               *)
(***************************************************************************)
UpdateTableStatusBegin(s, u, t, status) ==
  /\ \/ /\ status \notin ValidStatuses
        /\ Arrive(s, Done("BadRequest"))
     \/ /\ status \in ValidStatuses
        /\ SelectTable(t) = <<>>
        /\ Arrive(s, Done("NotFound"))
     \/ /\ status \in ValidStatuses
        /\ SelectTable(t) # <<>>
        /\ Arrive(s, [Request("updateTableStatus", u) EXCEPT
                        !.pc = "read", !.tbl = t, !.st = status])
  /\ UNCHANGED <<tables, orders, items, products, payments, now>>

UpdateTableStatusWrite(s) ==
  /\ sess[s].pc = "read"
  /\ sess[s].op = "updateTableStatus"
  /\ LET t == sess[s].tbl
         status == sess[s].st
     IN /\ TableRowFree(s, t)
        /\ tables' =
             IF status = "available"
               THEN [tables EXCEPT ![t].status = status,
                                   ![t].current_order_id = NullId,
                                   ![t].locked_by_user_id = NullUser,
                                   ![t].locked_at = NullTime]
               ELSE [tables EXCEPT ![t].status = status]
  /\ Finish(s, "ok")
  /\ UNCHANGED <<orders, items, products, payments, now, pair>>

(***************************************************************************)
(* deleteTable: DELETE /api/tables/:id (soft delete)                       *)
(***************************************************************************)
\* a plain SELECT, then the checks on the row it returned
DeleteTableBegin(s, u, t) ==
  /\ LET existing == SelectTable(t)
     IN Arrive(s, IF existing = <<>> THEN Done("NotFound")
                  ELSE IF existing[1].current_order_id # NullId THEN Done("BadRequest")
                  ELSE [Request("deleteTable", u) EXCEPT !.pc = "read", !.tbl = t])
  /\ UNCHANGED <<tables, orders, items, products, payments, now>>

\* UPDATE restaurant_tables SET is_active = FALSE, status = 'available' WHERE id = ?
DeleteTableWrite(s) ==
  /\ sess[s].pc = "read"
  /\ sess[s].op = "deleteTable"
  /\ TableRowFree(s, sess[s].tbl)
  /\ tables' = [tables EXCEPT ![sess[s].tbl].is_active = FALSE,
                              ![sess[s].tbl].status = "available"]
  /\ Finish(s, "ok")
  /\ UNCHANGED <<orders, items, products, payments, now, pair>>

(***************************************************************************)
(* createOrder: POST /api/orders                                           *)
(***************************************************************************)
OccupyTableKeepLock(row, orderId, serverId) ==
  [row EXCEPT !.status = "occupied", !.current_order_id = orderId]

\* UPDATE restaurant_tables SET status = 'occupied', current_order_id = ?,
\* locked_by_user_id = ?, locked_at = NOW()
OccupyTable(row, orderId, serverId) ==
  [row EXCEPT !.status = "occupied", !.current_order_id = orderId,
              !.locked_by_user_id = serverId, !.locked_at = now]

tableNeverBusy(row) == FALSE

\* table.status === "occupied" && table.current_order_id
tableHasActiveOrder(row) ==
  row.status = "occupied" /\ row.current_order_id # NullId

CreateOrderBegin(s, u, t) ==
  /\ Len(orders) < MaxOrders
  /\ Arrive(s, IF t = NullId
                 THEN [Request("createOrder", u) EXCEPT !.pc = "locked"]
                 ELSE SelectTableForUpdate(s, [Request("createOrder", u) EXCEPT !.tbl = t], t))
  /\ UNCHANGED <<tables, orders, items, products, payments, now>>

CreateOrderRead(s) == TableRead(s, "createOrder")

CreateOrderCommit(s) ==
  /\ sess[s].pc = "locked"
  /\ sess[s].op = "createOrder"
  /\ LET t == sess[s].tbl
         serverId == sess[s].actor
         isTakeaway == t = NullId
         snap == sess[s].snapT
         orderId == Len(orders) + 1
     IN \/ /\ ~isTakeaway
           /\ snap = <<>>
           /\ Finish(s, "NotFound")
           /\ UNCHANGED <<tables, orders>>
        \/ /\ ~isTakeaway
           /\ snap # <<>>
           /\ tableHasActiveOrder(snap[1])
           /\ Finish(s, "Conflict")
           /\ UNCHANGED <<tables, orders>>
        \/ /\ ~isTakeaway
           /\ snap # <<>>
           /\ ~tableHasActiveOrder(snap[1])
           /\ snap[1].status = "maintenance"
           /\ Finish(s, "BadRequest")
           /\ UNCHANGED <<tables, orders>>
        \/ /\ ~isTakeaway
           /\ snap # <<>>
           /\ ~tableHasActiveOrder(snap[1])
           /\ snap[1].status # "maintenance"
           /\ LockedByOther(snap[1], serverId)
           /\ Finish(s, "Conflict")
           /\ UNCHANGED <<tables, orders>>
        \/ /\ ~isTakeaway
           /\ snap # <<>>
           /\ ~tableHasActiveOrder(snap[1])
           /\ snap[1].status # "maintenance"
           /\ ~LockedByOther(snap[1], serverId)
           /\ Len(orders) < MaxOrders
           /\ orders' = Append(orders, NewOrder(t, serverId, 1))
           /\ tables' = [tables EXCEPT ![t] = OccupyTable(tables[t], orderId, serverId)]
           /\ Finish(s, "ok")
        \/ /\ isTakeaway
           /\ Len(orders) < MaxOrders
           /\ orders' = Append(orders, NewOrder(NullId, serverId, 1))
           /\ UNCHANGED tables
           /\ Finish(s, "ok")
  /\ UNCHANGED <<items, products, payments, now, pair>>

(***************************************************************************)
(* Row locks of orders (SELECT ... FOR UPDATE) and the reads of the order  *)
(* handlers.                                                               *)
(***************************************************************************)
OrderLockers == {"addItem", "updateItem", "removeItem", "cancelOrder", "processPayment"}

HoldsOrderRow(s, o) ==
  /\ sess[s].pc = "locked"
  /\ sess[s].op \in OrderLockers
  /\ sess[s].ord = o
  /\ o \in 1..Len(orders)

OrderRowNeverLocked(s, o) == TRUE

OrderRowFree(s, o) == \A x \in Sessions \ {s} : ~HoldsOrderRow(x, o)

SelectOrder(o) == IF o \in 1..Len(orders) THEN <<orders[o]>> ELSE <<>>

\* SELECT * FROM products WHERE id = ?
SelectProduct(p) == IF p \in DOMAIN products THEN <<products[p]>> ELSE <<>>

\* SELECT oi.*, p.track_stock, p.stock_quantity ... WHERE oi.id = ? AND oi.order_id = ?
SelectItem(i, o) ==
  IF i \in 1..Len(items) /\ items[i].order_id = o THEN <<items[i]>> ELSE <<>>

\* the request as it stands once it has asked for the row of order o: under
\* the lock it reads the order, then its item and product
SelectOrderForUpdate(s, r, o) ==
  IF OrderRowFree(s, o)
    THEN [r EXCEPT !.pc = "locked",
                   !.snapO = SelectOrder(o),
                   !.snapI = SelectItem(r.itm, o),
                   !.snapP = IF r.op = "addItem" THEN SelectProduct(r.prod)
                             ELSE IF SelectItem(r.itm, o) # <<>>
                               THEN SelectProduct(SelectItem(r.itm, o)[1].product_id)
                               ELSE <<>>]
    ELSE [r EXCEPT !.pc = "start"]

OrderRead(s, o) ==
  /\ sess[s].pc = "start"
  /\ sess[s].op = o
  /\ OrderRowFree(s, sess[s].ord)
  /\ sess' = [sess EXCEPT ![s] = SelectOrderForUpdate(s, sess[s], sess[s].ord)]
  /\ UNCHANGED <<tables, orders, items, products, payments, now, pair>>

orderPaid(order) == order.status = "paid"

\* order.status !== "open"
orderNotOpen(order) == order.status # "open"

neverPaid(order) == FALSE

\* order.status === "paid"
isPaid(order) == order.status = "paid"

isCancelled(order) == order.status = "cancelled"

\* order.status === "cancelled" || order.status === "void"
isCancelledOrVoid(order) == order.status \in {"cancelled", "void"}

ownerOnly(order, u) == order.server_id = u

canModify(order, u) ==
  \/ order.server_id = u
  \/ RoleOf(u) \in {"admin", "moderator"}

(***************************************************************************)
(* updateOrderTotals                                                       *)
(***************************************************************************)
RECURSIVE SumItems(_, _, _)
\* COALESCE(SUM(subtotal - discount_amount), 0) over the first n rows of its
SumItems(its, o, n) ==
  IF n = 0 THEN 0
  ELSE SumItems(its, o, n - 1)
       + (IF its[n].order_id = o /\ its[n].status # "cancelled"
            THEN its[n].subtotal - its[n].discount_amount
            ELSE 0)

taxRate == 0

updateOrderTotals(ords, its, o) ==
  LET subtotal == SumItems(its, o, Len(its))
      taxAmount == subtotal * taxRate
  IN [ords EXCEPT ![o].subtotal = subtotal,
                  ![o].tax_amount = taxAmount,
                  ![o].total_amount = subtotal + taxAmount - ords[o].discount_amount]

\* UPDATE products SET stock_quantity = stock_quantity - ? WHERE id = ?
AdjustStock(prods, p, delta) ==
  [prods EXCEPT ![p].stock_quantity = prods[p].stock_quantity - delta]

(***************************************************************************)
(* addOrderItem: POST /api/orders/:orderId/items                           *)
(***************************************************************************)
anyUnitPrice(price) == TRUE

\* body('unit_price').optional().isFloat({ min: 0 })
validUnitPrice(price) == ~price.given \/ (price.numeric /\ price.value >= 0)

AddItemBegin(s, u, o, p, q, price) ==
  /\ Len(items) < MaxItems
  /\ Arrive(s, IF ~validUnitPrice(price) THEN Done("BadRequest")
               ELSE SelectOrderForUpdate(s,
                      [Request("addItem", u) EXCEPT !.ord = o, !.prod = p, !.qty = q,
                                                    !.price = price], o))
  /\ UNCHANGED <<tables, orders, items, products, payments, now>>

AddItemRead(s) == OrderRead(s, "addItem")

catalogPrice(product, requestUnitPrice) == parseFloat(product.price)

\* the unit price of a new item, in mills
ResolveUnitPrice(product, requestUnitPrice) ==
  IF product.variable_price /\ requestUnitPrice # NoPrice
    THEN requestUnitPrice.value
    ELSE parseFloat(product.price)

\* isNaN(unitPrice) || unitPrice < 0, for a price taken from the request
invalidUnitPrice(product, requestUnitPrice) ==
  /\ product.variable_price
  /\ requestUnitPrice # NoPrice
  /\ ~requestUnitPrice.numeric \/ requestUnitPrice.value < 0

AddItemCommit(s) ==
  /\ sess[s].pc = "locked"
  /\ sess[s].op = "addItem"
  /\ LET o == sess[s].ord
         u == sess[s].actor
         p == sess[s].prod
         quantity == sess[s].qty
         order == sess[s].snapO
         product == sess[s].snapP
         fail(r) == Finish(s, r) /\ UNCHANGED <<orders, items, products>>
     IN IF order = <<>> THEN fail("NotFound")
        ELSE IF orderNotOpen(order[1]) THEN fail("BadRequest")
        ELSE IF ~canModify(order[1], u) THEN fail("Forbidden")
        ELSE IF product = <<>> \/ ~product[1].is_active THEN fail("NotFound")
        ELSE IF ~product[1].is_available THEN fail("BadRequest")
        ELSE IF product[1].track_stock /\ product[1].stock_quantity < quantity
          THEN fail("BadRequest")
        ELSE IF invalidUnitPrice(product[1], sess[s].price) THEN fail("BadRequest")
        ELSE
          LET unitPrice == ResolveUnitPrice(product[1], sess[s].price)
              subtotal == unitPrice * quantity
              its == Append(items, NewItem(o, p, quantity, ToDecimal(unitPrice),
                                           ToDecimal(subtotal)))
          IN /\ Len(items) < MaxItems
             /\ items' = its
             /\ products' = IF product[1].track_stock
                              THEN AdjustStock(products, p, quantity)
                              ELSE products
             /\ orders' = updateOrderTotals(orders, its, o)
             /\ Finish(s, "ok")
  /\ UNCHANGED <<tables, payments, now, pair>>

(***************************************************************************)
(* updateOrderItem: PATCH /api/orders/:orderId/items/:itemId               *)
(***************************************************************************)
wholeQuantity(quantity, item) == quantity

\* const quantityDiff = quantity - item.quantity
QuantityDiff(quantity, item) == quantity - item.quantity

catalogUnitPrice(item, product) == parseFloat(product.price)

\* parseFloat(item.unit_price): the price the item was added at
itemUnitPrice(item, product) == parseFloat(item.unit_price)

UpdateItemBegin(s, u, o, i, q) ==
  /\ Arrive(s, SelectOrderForUpdate(s,
                 [Request("updateItem", u) EXCEPT !.ord = o, !.itm = i, !.qty = q], o))
  /\ UNCHANGED <<tables, orders, items, products, payments, now>>

UpdateItemRead(s) == OrderRead(s, "updateItem")

UpdateItemCommit(s) ==
  /\ sess[s].pc = "locked"
  /\ sess[s].op = "updateItem"
  /\ LET o == sess[s].ord
         u == sess[s].actor
         i == sess[s].itm
         quantity == sess[s].qty
         order == sess[s].snapO
         item == sess[s].snapI
         product == sess[s].snapP
         fail(r) == Finish(s, r) /\ UNCHANGED <<orders, items, products>>
     IN IF order = <<>> THEN fail("NotFound")
        ELSE IF orderNotOpen(order[1]) THEN fail("BadRequest")
        ELSE IF ~canModify(order[1], u) THEN fail("Forbidden")
        ELSE IF item = <<>> THEN fail("NotFound")
        ELSE IF item[1].status = "cancelled" THEN fail("BadRequest")
        ELSE
          LET quantityDiff == QuantityDiff(quantity, item[1])
              newSubtotal == itemUnitPrice(item[1], product[1]) * quantity
              its == [items EXCEPT ![i].quantity = quantity,
                                   ![i].subtotal = ToDecimal(newSubtotal)]
          IN IF product[1].track_stock /\ quantityDiff > 0
                /\ product[1].stock_quantity < quantityDiff
               THEN fail("BadRequest")
               ELSE /\ items' = its
                    /\ products' = IF product[1].track_stock
                                     THEN AdjustStock(products, item[1].product_id,
                                                      quantityDiff)
                                     ELSE products
                    /\ orders' = updateOrderTotals(orders, its, o)
                    /\ Finish(s, "ok")
  /\ UNCHANGED <<tables, payments, now, pair>>

(***************************************************************************)
(* removeOrderItem: DELETE /api/orders/:orderId/items/:itemId              *)
(***************************************************************************)
LeaveItem(its, i) == its

\* UPDATE order_items SET status = 'cancelled' WHERE id = ?
MarkCancelled(its, i) == [its EXCEPT ![i].status = "cancelled"]

RemoveItemBegin(s, u, o, i) ==
  /\ \A p \in DOMAIN products :
        products[p].track_stock => products[p].stock_quantity <= MaxStock
  /\ Arrive(s, SelectOrderForUpdate(s,
                 [Request("removeItem", u) EXCEPT !.ord = o, !.itm = i], o))
  /\ UNCHANGED <<tables, orders, items, products, payments, now>>

RemoveItemRead(s) == OrderRead(s, "removeItem")

RemoveItemCommit(s) ==
  /\ sess[s].pc = "locked"
  /\ sess[s].op = "removeItem"
  /\ LET o == sess[s].ord
         u == sess[s].actor
         i == sess[s].itm
         order == sess[s].snapO
         item == sess[s].snapI
         product == sess[s].snapP
         fail(r) == Finish(s, r) /\ UNCHANGED <<orders, items, products>>
     IN IF order = <<>> THEN fail("NotFound")
        ELSE IF orderNotOpen(order[1]) THEN fail("BadRequest")
        ELSE IF ~canModify(order[1], u) THEN fail("Forbidden")
        ELSE IF item = <<>> THEN fail("NotFound")
        ELSE
          LET its == MarkCancelled(items, i)
          IN /\ items' = its
             /\ products' = IF product[1].track_stock
                              THEN AdjustStock(products, item[1].product_id,
                                               0 - item[1].quantity)
                              ELSE products
             /\ orders' = updateOrderTotals(orders, its, o)
             /\ Finish(s, "ok")
  /\ UNCHANGED <<tables, payments, now, pair>>

(***************************************************************************)
(* updateOrder: PATCH /api/orders/:orderId (no transaction: a plain        *)
(* SELECT, then one autocommit UPDATE of guest_count)                      *)
(***************************************************************************)
UpdateOrderBegin(s, u, o, guests) ==
  /\ LET order == SelectOrder(o)
     IN Arrive(s, IF order = <<>> THEN Done("NotFound")
                  ELSE IF order[1].status # "open" THEN Done("BadRequest")
                  ELSE IF ~canModify(order[1], u) THEN Done("Forbidden")
                  ELSE [Request("updateOrder", u) EXCEPT
                          !.pc = "read", !.ord = o, !.qty = guests])
  /\ UNCHANGED <<tables, orders, items, products, payments, now>>

UpdateOrderWrite(s) ==
  /\ sess[s].pc = "read"
  /\ sess[s].op = "updateOrder"
  /\ OrderRowFree(s, sess[s].ord)
  /\ orders' = [orders EXCEPT ![sess[s].ord].guest_count = sess[s].qty]
  /\ Finish(s, "ok")
  /\ UNCHANGED <<tables, items, products, payments, now, pair>>

(***************************************************************************)
(* cancelOrder: POST /api/orders/:orderId/cancel                           *)
(***************************************************************************)
anyRole(roles, u) == TRUE

\* requireRole(...roles): roles.includes(req.user.role_name)
requireRole(roles, u) == RoleOf(u) \in roles

CancelOrderBegin(s, u, o) ==
  /\ Arrive(s, IF ~requireRole({"admin", "moderator"}, u) THEN Done("Forbidden")
               ELSE SelectOrderForUpdate(s, [Request("cancelOrder", u) EXCEPT !.ord = o], o))
  /\ UNCHANGED <<tables, orders, items, products, payments, now>>

CancelOrderRead(s) == OrderRead(s, "cancelOrder")

RECURSIVE RestoreStock(_, _, _, _)
\* for (const item of items) if (item.track_stock) stock_quantity += quantity,
\* over the non-cancelled items of order o among the first n rows
RestoreStock(prods, its, o, n) ==
  IF n = 0 THEN prods
  ELSE LET rest == RestoreStock(prods, its, o, n - 1)
       IN IF its[n].order_id = o /\ its[n].status # "cancelled"
             /\ rest[its[n].product_id].track_stock
            THEN AdjustStock(rest, its[n].product_id, 0 - its[n].quantity)
            ELSE rest

LeaveTable(row) == row

\* UPDATE restaurant_tables SET status = 'available', current_order_id = NULL,
\* locked_by_user_id = NULL, locked_at = NULL
FreeTable(row) ==
  [row EXCEPT !.status = "available", !.current_order_id = NullId,
              !.locked_by_user_id = NullUser, !.locked_at = NullTime]

EveryTable(o) == Tables

\* the rows of UPDATE restaurant_tables ... WHERE current_order_id = ?
TablesWithCurrentOrder(o) == {t \in Tables : tables[t].current_order_id = o}

CancelOrderCommit(s) ==
  /\ sess[s].pc = "locked"
  /\ sess[s].op = "cancelOrder"
  /\ LET o == sess[s].ord
         u == sess[s].actor
         order == sess[s].snapO
         fail(r) == Finish(s, r) /\ UNCHANGED <<tables, orders, items, products>>
     IN IF order = <<>> THEN fail("NotFound")
        ELSE IF isPaid(order[1]) THEN fail("BadRequest")
        ELSE IF isCancelledOrVoid(order[1]) THEN fail("BadRequest")
        ELSE IF RoleOf(u) \notin {"admin", "moderator"} THEN fail("Forbidden")
        ELSE /\ \A t \in TablesWithCurrentOrder(o) : TableRowFree(s, t)
             /\ products' = RestoreStock(products, items, o, Len(items))
             /\ items' = [n \in 1..Len(items) |->
                            IF items[n].order_id = o
                              THEN [items[n] EXCEPT !.status = "cancelled"]
                              ELSE items[n]]
             /\ orders' = [orders EXCEPT ![o].status = "cancelled"]
             /\ tables' = [t \in Tables |->
                             IF t \in TablesWithCurrentOrder(o)
                               THEN FreeTable(tables[t])
                               ELSE tables[t]]
             /\ Finish(s, "ok")
  /\ UNCHANGED <<payments, now, pair>>

(***************************************************************************)
(* cancelOrder, statement by statement: each UPDATE products of the        *)
(* restore loop takes the row lock of its product and keeps it until the   *)
(* transaction ends.  sess[s].itm counts the item rows the loop has passed.*)
(***************************************************************************)
\* the order has been read under its lock and has passed every check
CancelAccepted(s) ==
  /\ sess[s].pc = "locked"
  /\ sess[s].op = "cancelOrder"
  /\ sess[s].snapO # <<>>
  /\ ~isPaid(sess[s].snapO[1])
  /\ ~isCancelledOrVoid(sess[s].snapO[1])
  /\ RoleOf(sess[s].actor) \in {"admin", "moderator"}

\* item row n is one whose stock the loop of session s restores
RestoresItem(s, n) ==
  /\ items[n].order_id = sess[s].ord
  /\ items[n].status # "cancelled"
  /\ products[items[n].product_id].track_stock

HoldsProductRow(s, p) ==
  /\ CancelAccepted(s)
  /\ \E n \in 1..sess[s].itm : RestoresItem(s, n) /\ items[n].product_id = p

ProductRowFree(s, p) == \A x \in Sessions \ {s} : ~HoldsProductRow(x, p)

\* the loop of session s stands before an UPDATE of product p that another
\* transaction has locked
WaitsForProduct(s, p) ==
  /\ CancelAccepted(s)
  /\ sess[s].itm < Len(items)
  /\ RestoresItem(s, sess[s].itm + 1)
  /\ items[sess[s].itm + 1].product_id = p
  /\ ~ProductRowFree(s, p)

\* one turn of the loop: for (const item of items) if (item.track_stock) UPDATE products
CancelOrderRestore(s) ==
  /\ CancelAccepted(s)
  /\ sess[s].itm < Len(items)
  /\ RestoresItem(s, sess[s].itm + 1)
       => ProductRowFree(s, items[sess[s].itm + 1].product_id)
  /\ sess' = [sess EXCEPT ![s].itm = @ + 1]
  /\ UNCHANGED <<tables, orders, items, products, payments, now, pair>>

\* the rest of the transaction and its commit, or the throw of a failed check
CancelOrderFinish(s) ==
  /\ CancelAccepted(s) => sess[s].itm = Len(items)
  /\ CancelOrderCommit(s)

noDeadlock(s) == FALSE

\* two transactions wait for product rows the other holds
Deadlocked(s) ==
  \E x \in Sessions \ {s}, p \in DOMAIN products, q \in DOMAIN products :
    /\ WaitsForProduct(s, p) /\ HoldsProductRow(x, p)
    /\ WaitsForProduct(x, q) /\ HoldsProductRow(s, q)

\* the database ends the wait of session s with an error (deadlock found, or
\* lock wait timeout): db.transaction rolls back and rethrows, the answer
\* is 500
DeadlockRollback(s) ==
  /\ Deadlocked(s)
  /\ Finish(s, "InternalError")
  /\ UNCHANGED <<tables, orders, items, products, payments, now, pair>>

(***************************************************************************)
(* processPayment: POST /api/payments                                      *)
(***************************************************************************)
ServeEveryItem(its, o) ==
  [n \in 1..Len(its) |->
     IF its[n].order_id = o THEN [its[n] EXCEPT !.status = "served"] ELSE its[n]]

\* UPDATE order_items SET status = 'served' WHERE order_id = ? AND status != 'cancelled'
ServeItems(its, o) ==
  [n \in 1..Len(its) |->
     IF its[n].order_id = o /\ its[n].status # "cancelled"
       THEN [its[n] EXCEPT !.status = "served"]
       ELSE its[n]]

anyoneMayPay(u) == TRUE

\* ["cashier", "admin"].includes(req.user.role_name)
cashierOrAdmin(u) == RoleOf(u) \in {"cashier", "admin"}

ProcessPaymentBegin(s, u, o, m, paid, tip) ==
  /\ Arrive(s, IF ~cashierOrAdmin(u)
                 THEN Done("Forbidden")
                 ELSE SelectOrderForUpdate(s,
                        [Request("processPayment", u) EXCEPT
                           !.ord = o, !.method = m, !.paid = paid, !.tip = tip], o))
  /\ UNCHANGED <<tables, orders, items, products, payments, now>>

ProcessPaymentRead(s) == OrderRead(s, "processPayment")

\* the payments, orders, items and tables as the transaction of session s
\* sees them after the first n of its four writes: INSERT INTO payments,
\* UPDATE orders, UPDATE order_items, UPDATE restaurant_tables
StagedWrites(s, n) ==
  LET o == sess[s].ord
      order == sess[s].snapO[1]
      amountDue == parseFloat(order.total_amount)
      totalRequired == FloatAdd(amountDue, sess[s].tip)
      amountPaidNum == sess[s].paid
      changeAmount == amountPaidNum - totalRequired.exact
      t == order.table_id
  IN [payments |-> IF n >= 1
                     THEN Append(payments,
                            NewPayment(o, sess[s].method, sess[s].actor,
                                       ToDecimal(amountDue), ToDecimal(amountPaidNum),
                                       ToDecimal(changeAmount), ToDecimal(sess[s].tip)))
                     ELSE payments,
      orders |-> IF n >= 2 THEN [orders EXCEPT ![o].status = "paid"] ELSE orders,
      items |-> IF n >= 3 THEN ServeItems(items, o) ELSE items,
      tables |-> IF n >= 4 /\ t # NullId
                   THEN [tables EXCEPT ![t] = FreeTable(tables[t])]
                   ELSE tables]

ProcessPaymentCommit(s) ==
  /\ sess[s].pc = "locked"
  /\ sess[s].op = "processPayment"
  /\ LET o == sess[s].ord
         order == sess[s].snapO
         fail(r) == Finish(s, r) /\ UNCHANGED <<tables, orders, items, payments>>
     IN IF order = <<>> THEN fail("NotFound")
        ELSE IF isPaid(order[1]) THEN fail("BadRequest")
        ELSE IF isCancelledOrVoid(order[1]) THEN fail("BadRequest")
        ELSE IF sess[s].method \notin ActiveMethods THEN fail("BadRequest")
        ELSE
          LET amountDue == parseFloat(order[1].total_amount)
              totalRequired == FloatAdd(amountDue, sess[s].tip)
              amountPaidNum == sess[s].paid
              t == order[1].table_id
          IN IF LessThanSum(amountPaidNum, totalRequired) THEN fail("BadRequest")
             ELSE /\ t # NullId => TableRowFree(s, t)
                  /\ payments' = StagedWrites(s, 4).payments
                  /\ orders' = StagedWrites(s, 4).orders
                  /\ items' = StagedWrites(s, 4).items
                  /\ tables' = StagedWrites(s, 4).tables
                  /\ Finish(s, "ok")
  /\ UNCHANGED <<products, now, pair>>

keepWrites(committed, staged) == staged

\* connection.rollback(): the writes of the transaction are discarded
rollback(committed, staged) == committed

\* the transaction of session s holds the order row and has passed every
\* check of processPayment
SettlementBegun(s) ==
  /\ sess[s].pc = "locked"
  /\ sess[s].op = "processPayment"
  /\ sess[s].snapO # <<>>
  /\ ~isPaid(sess[s].snapO[1])
  /\ ~isCancelledOrVoid(sess[s].snapO[1])
  /\ sess[s].method \in ActiveMethods
  /\ ~LessThanSum(sess[s].paid,
                  FloatAdd(parseFloat(sess[s].snapO[1].total_amount), sess[s].tip))

\* a statement of the transaction fails after n writes (lock wait timeout,
\* deadlock, lost connection): db.transaction rolls back and rethrows, and
\* the error handler answers 500
ProcessPaymentRollback(s, n) ==
  /\ SettlementBegun(s)
  /\ n = 4 => (sess[s].snapO[1].table_id # NullId =>
                 TableRowFree(s, sess[s].snapO[1].table_id))
  /\ LET committed == [payments |-> payments, orders |-> orders,
                       items |-> items, tables |-> tables]
         after == rollback(committed, StagedWrites(s, n))
     IN /\ payments' = after.payments
        /\ orders' = after.orders
        /\ items' = after.items
        /\ tables' = after.tables
  /\ Finish(s, "InternalError")
  /\ UNCHANGED <<products, now, pair>>

\* the transaction commits and the db.query that fetches the payment for the
\* response fails: the error goes to next(error) and the answer is 500
ProcessPaymentFetchFails(s) ==
  /\ SettlementBegun(s)
  /\ sess[s].snapO[1].table_id # NullId => TableRowFree(s, sess[s].snapO[1].table_id)
  /\ payments' = StagedWrites(s, 4).payments
  /\ orders' = StagedWrites(s, 4).orders
  /\ items' = StagedWrites(s, 4).items
  /\ tables' = StagedWrites(s, 4).tables
  /\ Finish(s, "InternalError")
  /\ UNCHANGED <<products, now, pair>>

(***************************************************************************)
(* updateProduct: PUT /api/products/:id (no transaction: a plain SELECT,   *)
(* then one autocommit UPDATE of the fields the request names)             *)
(***************************************************************************)
\* the fields of the request body that are not undefined
updateClauses(updates) == {f \in DOMAIN updates : updates[f] # <<>>}

\* the value a column takes for a request value: price is DECIMAL(10,2)
ColumnValue(f, v) == IF f = "price" THEN ToDecimal(v) ELSE v

\* UPDATE products SET <the named fields> WHERE id = ?
SetFields(row, updates) ==
  [f \in DOMAIN row |->
     IF f \in updateClauses(updates) THEN ColumnValue(f, updates[f][1]) ELSE row[f]]

UpdateProductBegin(s, u, p, updates) ==
  /\ Arrive(s, IF SelectProduct(p) = <<>> THEN Done("NotFound")
               ELSE IF updateClauses(updates) = {} THEN Done("BadRequest")
               ELSE [Request("updateProduct", u) EXCEPT
                       !.pc = "read", !.prod = p, !.upd = updates])
  /\ UNCHANGED <<tables, orders, items, products, payments, now>>

UpdateProductWrite(s) ==
  /\ sess[s].pc = "read"
  /\ sess[s].op = "updateProduct"
  /\ products' = [products EXCEPT ![sess[s].prod] = SetFields(@, sess[s].upd)]
  /\ Finish(s, "ok")
  /\ UNCHANGED <<tables, orders, items, payments, now, pair>>

(***************************************************************************)
(* updateProductStock: PATCH /api/products/:id/stock                       *)
(***************************************************************************)
\* request bodies: a relative adjustment, an absolute stock_quantity, neither
Adjust(v) == [adjustment |-> <<v>>, stock_quantity |-> <<>>]

SetStock(v) == [adjustment |-> <<>>, stock_quantity |-> <<v>>]

\* newStock as computed from the row the handler has read
NewStock(product, body) ==
  IF body.adjustment # <<>> THEN product.stock_quantity + body.adjustment[1]
  ELSE body.stock_quantity[1]

\* a plain SELECT, then the checks on the row it returned
UpdateProductStockBegin(s, u, p, body) ==
  /\ LET product == SelectProduct(p)
     IN /\ product # <<>> /\ (body.adjustment # <<>> \/ body.stock_quantity # <<>>)
             => NewStock(product[1], body) <= MaxStock
        /\ Arrive(s, IF product = <<>> THEN Done("NotFound")
                     ELSE IF body.adjustment = <<>> /\ body.stock_quantity = <<>>
                       THEN Done("BadRequest")
                     ELSE IF NewStock(product[1], body) < 0 THEN Done("BadRequest")
                     ELSE [Request("updateProductStock", u) EXCEPT
                             !.pc = "read", !.prod = p,
                             !.qty = NewStock(product[1], body)])
  /\ UNCHANGED <<tables, orders, items, products, payments, now>>

\* UPDATE products SET stock_quantity = ? WHERE id = ?
UpdateProductStockWrite(s) ==
  /\ sess[s].pc = "read"
  /\ sess[s].op = "updateProductStock"
  /\ products' = [products EXCEPT ![sess[s].prod].stock_quantity = sess[s].qty]
  /\ Finish(s, "ok")
  /\ UNCHANGED <<tables, orders, items, payments, now, pair>>

(***************************************************************************)
(* logAudit: the INSERT INTO audit_log a handler makes after its writes,   *)
(* before it answers.  A handler that throws never reaches the call.       *)
(***************************************************************************)
\* the handlers whose success path calls logAudit, once
AuditingHandlers ==
  {"createOrder", "addItem", "updateItem", "removeItem", "cancelOrder",
   "processPayment", "updateTableStatus", "deleteTable", "updateProduct",
   "updateProductStock"}

\* the number of logAudit calls session s makes in this step
logAuditCalls(s) ==
  IF /\ sess[s].op \in AuditingHandlers
     /\ sess[s].pc # "idle"
     /\ sess'[s].pc = "idle"
     /\ \/ sess'[s].res = "ok"
        \/ sess[s].op = "processPayment" /\ payments' # payments
    THEN 1
    ELSE 0

(***************************************************************************)
(* The clock.                                                              *)
(***************************************************************************)
Tick ==
  /\ AllIdle
  /\ now < MaxTicks
  /\ now' = now + 1
  /\ pair' = <<>>
  /\ UNCHANGED <<tables, orders, items, products, payments, sess>>

(***************************************************************************)
(* Specifications.                                                         *)
(***************************************************************************)
InitStore ==
  /\ tables = [t \in Tables |-> NewTable]
  /\ orders = <<>>
  /\ items = <<>>
  /\ products = Catalog
  /\ payments = <<>>
  /\ now = 0
  /\ pair = <<>>

\* one request at a time
InitSeq == InitStore /\ sess = [s \in {1} |-> Blank]

\* two requests in flight at once
InitConc == InitStore /\ sess = [s \in {1, 2} |-> Blank]

TableActors == {"ann", "bob", "adm"}

\* lockTable and createOrder, two requests at a time
NextLock ==
  \/ \E s \in Sessions, u \in TableActors, t \in Tables : LockTableBegin(s, u, t)
  \/ \E s \in Sessions : LockTableRead(s)
  \/ \E s \in Sessions : LockTableCommit(s)
  \/ \E s \in Sessions, u \in TableActors, t \in Tables : CreateOrderBegin(s, u, t)
  \/ \E s \in Sessions : CreateOrderRead(s)
  \/ \E s \in Sessions : CreateOrderCommit(s)
  \/ Tick

SpecLock == InitConc /\ [][NextLock]_vars

\* the table handlers, cancelOrder and processPayment, one request at a time
NextTable ==
  \/ \E s \in Sessions, u \in TableActors, t \in TableIds : LockTableBegin(s, u, t)
  \/ \E s \in Sessions : LockTableCommit(s)
  \/ \E s \in Sessions, u \in TableActors, t \in TableIds : UnlockTableBegin(s, u, t)
  \/ \E s \in Sessions : UnlockTableCommit(s)
  \/ \E s \in Sessions, t \in TableIds, status \in ValidStatuses \cup {"closed"} :
        UpdateTableStatusBegin(s, "ann", t, status)
  \/ \E s \in Sessions : UpdateTableStatusWrite(s)
  \/ \E s \in Sessions, u \in {"ann", "bob"}, t \in TableIds : CreateOrderBegin(s, u, t)
  \/ \E s \in Sessions : CreateOrderCommit(s)
  \/ \E s \in Sessions, o \in 1..MaxOrders : CancelOrderBegin(s, "adm", o)
  \/ \E s \in Sessions : CancelOrderCommit(s)
  \/ \E s \in Sessions, o \in 1..MaxOrders : ProcessPaymentBegin(s, "adm", o, 1, 10, 0)
  \/ \E s \in Sessions : ProcessPaymentCommit(s)
  \/ Tick

SpecTable == InitSeq /\ [][NextTable]_vars

ItemActors == {"ann"}

RequestPrices == {NoPrice, Supplied(14)}

\* the item handlers and cancelOrder on takeaway orders, one request at a time
NextItems ==
  \/ \E s \in Sessions, u \in {"ann"} : CreateOrderBegin(s, u, NullId)
  \/ \E s \in Sessions : CreateOrderCommit(s)
  \/ \E s \in Sessions, u \in ItemActors, o \in 1..MaxOrders, p \in {1, 2},
        q \in 1..MaxQty, price \in RequestPrices : AddItemBegin(s, u, o, p, q, price)
  \/ \E s \in Sessions : AddItemCommit(s)
  \/ \E s \in Sessions, u \in ItemActors, o \in 1..MaxOrders, i \in 1..MaxItems,
        q \in 1..MaxQty : UpdateItemBegin(s, u, o, i, q)
  \/ \E s \in Sessions : UpdateItemCommit(s)
  \/ \E s \in Sessions, u \in ItemActors, o \in 1..MaxOrders, i \in 1..MaxItems :
        RemoveItemBegin(s, u, o, i)
  \/ \E s \in Sessions : RemoveItemCommit(s)
  \/ \E s \in Sessions, u \in {"adm"}, o \in 1..MaxOrders : CancelOrderBegin(s, u, o)
  \/ \E s \in Sessions : CancelOrderCommit(s)

SpecItems == InitSeq /\ [][NextItems]_vars

PayActors == {"csh", "ann"}

\* amount_paid values of a request, in thousandths
RequestAmounts == {10, 40}

\* createOrder, addItem, processPayment and cancelOrder, two requests at a time
NextPay ==
  \/ \E s \in Sessions, t \in Tables \cup {NullId} : CreateOrderBegin(s, "ann", t)
  \/ \E s \in Sessions : CreateOrderRead(s)
  \/ \E s \in Sessions : CreateOrderCommit(s)
  \/ \E s \in Sessions : AddItemBegin(s, "ann", 1, 1, 1, NoPrice)
  \/ \E s \in Sessions : AddItemRead(s)
  \/ \E s \in Sessions : AddItemCommit(s)
  \/ \E s \in Sessions, u \in PayActors, o \in 1..MaxOrders,
        paid \in RequestAmounts : ProcessPaymentBegin(s, u, o, 1, paid, 0)
  \/ \E s \in Sessions : ProcessPaymentRead(s)
  \/ \E s \in Sessions : ProcessPaymentCommit(s)
  \/ \E s \in Sessions, o \in 1..MaxOrders : CancelOrderBegin(s, "adm", o)
  \/ \E s \in Sessions : CancelOrderRead(s)
  \/ \E s \in Sessions : CancelOrderCommit(s)

SpecPay == InitConc /\ [][NextPay]_vars

\* an order row with status void: no handler writes that status, the schema
\* admits it, and the handlers test for it
VoidOrder == [NewOrder(NullId, "ann", 1) EXCEPT !.status = "void"]

\* an empty orders table, or one that already holds a void order
InitLife ==
  /\ tables = [t \in Tables |-> NewTable]
  /\ orders \in {<<>>, <<VoidOrder>>}
  /\ items = <<>>
  /\ products = Catalog
  /\ payments = <<>>
  /\ now = 0
  /\ pair = <<>>
  /\ sess = [s \in {1} |-> Blank]

\* every handler that reads an order's status, one request at a time
NextLife ==
  \/ \E s \in Sessions : CreateOrderBegin(s, "ann", NullId)
  \/ \E s \in Sessions : CreateOrderCommit(s)
  \/ \E s \in Sessions, o \in 1..MaxOrders, q \in 1..MaxQty :
        AddItemBegin(s, "ann", o, 1, q, NoPrice)
  \/ \E s \in Sessions : AddItemCommit(s)
  \/ \E s \in Sessions, o \in 1..MaxOrders, i \in 1..MaxItems, q \in 1..MaxQty :
        UpdateItemBegin(s, "ann", o, i, q)
  \/ \E s \in Sessions : UpdateItemCommit(s)
  \/ \E s \in Sessions, o \in 1..MaxOrders, i \in 1..MaxItems :
        RemoveItemBegin(s, "ann", o, i)
  \/ \E s \in Sessions : RemoveItemCommit(s)
  \/ \E s \in Sessions, o \in 1..MaxOrders, guests \in {2} :
        UpdateOrderBegin(s, "ann", o, guests)
  \/ \E s \in Sessions : UpdateOrderWrite(s)
  \/ \E s \in Sessions, u \in {"adm", "ann"}, o \in 1..MaxOrders : CancelOrderBegin(s, u, o)
  \/ \E s \in Sessions : CancelOrderCommit(s)
  \/ \E s \in Sessions, u \in PayActors, o \in 1..MaxOrders, m \in {1, 2},
        paid \in RequestAmounts : ProcessPaymentBegin(s, u, o, m, paid, 0)
  \/ \E s \in Sessions : ProcessPaymentCommit(s)

SpecLife == InitLife /\ [][NextLife]_vars

\* lockTable, unlockTable, createOrder and updateTableStatus to reserved, two
\* requests at a time
NextRelease ==
  \/ \E s \in Sessions, u \in TableActors, t \in Tables : LockTableBegin(s, u, t)
  \/ \E s \in Sessions : LockTableRead(s)
  \/ \E s \in Sessions : LockTableCommit(s)
  \/ \E s \in Sessions, u \in TableActors, t \in Tables : UnlockTableBegin(s, u, t)
  \/ \E s \in Sessions : UnlockTableRead(s)
  \/ \E s \in Sessions : UnlockTableCommit(s)
  \/ \E s \in Sessions, u \in {"ann", "bob"}, t \in Tables : CreateOrderBegin(s, u, t)
  \/ \E s \in Sessions : CreateOrderRead(s)
  \/ \E s \in Sessions : CreateOrderCommit(s)
  \/ \E s \in Sessions, t \in Tables : UpdateTableStatusBegin(s, "ann", t, "reserved")
  \/ \E s \in Sessions : UpdateTableStatusWrite(s)

SpecRelease == InitConc /\ [][NextRelease]_vars

ModifyActors == {"ann", "bob", "mod"}

\* the item handlers called by the owner, another server and a moderator on
\* one takeaway order, and cancelOrder, two requests at a time
NextModify ==
  \/ \E s \in Sessions : CreateOrderBegin(s, "ann", NullId)
  \/ \E s \in Sessions : CreateOrderCommit(s)
  \/ \E s \in Sessions, u \in ModifyActors : AddItemBegin(s, u, 1, 1, 1, NoPrice)
  \/ \E s \in Sessions : AddItemRead(s)
  \/ \E s \in Sessions : AddItemCommit(s)
  \/ \E s \in Sessions, u \in ModifyActors, q \in 1..MaxQty : UpdateItemBegin(s, u, 1, 1, q)
  \/ \E s \in Sessions : UpdateItemRead(s)
  \/ \E s \in Sessions : UpdateItemCommit(s)
  \/ \E s \in Sessions, u \in ModifyActors : RemoveItemBegin(s, u, 1, 1)
  \/ \E s \in Sessions : RemoveItemRead(s)
  \/ \E s \in Sessions : RemoveItemCommit(s)
  \/ \E s \in Sessions : CancelOrderBegin(s, "adm", 1)
  \/ \E s \in Sessions : CancelOrderRead(s)
  \/ \E s \in Sessions : CancelOrderCommit(s)

SpecModify == InitConc /\ [][NextModify]_vars

\* request bodies of updateProduct: a new price (in thousandths), the
\* variable_price flag set, and a body without fields
ProductUpdates ==
  {[price |-> <<30>>, variable_price |-> <<>>],
   [price |-> <<>>, variable_price |-> <<TRUE>>],
   NoUpdates}

\* addItem and updateItem on one takeaway order while an admin edits the
\* product, two requests at a time
NextCatalog ==
  \/ \E s \in Sessions : CreateOrderBegin(s, "ann", NullId)
  \/ \E s \in Sessions : CreateOrderCommit(s)
  \/ \E s \in Sessions, q \in 1..MaxQty, price \in RequestPrices :
        AddItemBegin(s, "ann", 1, 1, q, price)
  \/ \E s \in Sessions : AddItemRead(s)
  \/ \E s \in Sessions : AddItemCommit(s)
  \/ \E s \in Sessions, i \in 1..MaxItems, q \in 1..MaxQty : UpdateItemBegin(s, "ann", 1, i, q)
  \/ \E s \in Sessions : UpdateItemRead(s)
  \/ \E s \in Sessions : UpdateItemCommit(s)
  \/ \E s \in Sessions, updates \in ProductUpdates : UpdateProductBegin(s, "adm", 1, updates)
  \/ \E s \in Sessions : UpdateProductWrite(s)

SpecCatalog == InitConc /\ [][NextCatalog]_vars

\* unit_price values of a request: absent, 0.014, 0.03, -0.01 and text
SuppliedPrices == {NoPrice, Supplied(14), Supplied(30), Supplied(0 - 10), NotNumeric}

\* addItem of a catalog-priced and of a variable-price product with every
\* kind of unit_price, one request at a time
NextPrice ==
  \/ \E s \in Sessions : CreateOrderBegin(s, "ann", NullId)
  \/ \E s \in Sessions : CreateOrderCommit(s)
  \/ \E s \in Sessions, o \in 1..MaxOrders, p \in {1, 2}, q \in 1..MaxQty,
        price \in SuppliedPrices : AddItemBegin(s, "ann", o, p, q, price)
  \/ \E s \in Sessions : AddItemCommit(s)

SpecPrice == InitSeq /\ [][NextPrice]_vars

\* orders on a table and takeaway, their items added and removed, the table
\* reset and locked by hand, and cancelOrder, one request at a time
NextCancel ==
  \/ \E s \in Sessions, t \in Tables \cup {NullId} : CreateOrderBegin(s, "ann", t)
  \/ \E s \in Sessions : CreateOrderCommit(s)
  \/ \E s \in Sessions, o \in 1..MaxOrders : AddItemBegin(s, "ann", o, 1, 1, NoPrice)
  \/ \E s \in Sessions : AddItemCommit(s)
  \/ \E s \in Sessions, o \in 1..MaxOrders, i \in 1..MaxItems : RemoveItemBegin(s, "ann", o, i)
  \/ \E s \in Sessions : RemoveItemCommit(s)
  \/ \E s \in Sessions, t \in Tables : UpdateTableStatusBegin(s, "ann", t, "available")
  \/ \E s \in Sessions : UpdateTableStatusWrite(s)
  \/ \E s \in Sessions, t \in Tables : LockTableBegin(s, "bob", t)
  \/ \E s \in Sessions : LockTableCommit(s)
  \/ \E s \in Sessions, o \in 1..MaxOrders : CancelOrderBegin(s, "adm", o)
  \/ \E s \in Sessions : CancelOrderCommit(s)

SpecCancel == InitSeq /\ [][NextCancel]_vars

\* tip_amount and amount_paid values of a request, in thousandths
RequestTips == {0, 50, 70}

SettleAmounts == {20, 70, 90, 110}

\* one takeaway order with one or two items and payments with a tip, one
\* request at a time
NextSettle ==
  \/ \E s \in Sessions : CreateOrderBegin(s, "ann", NullId)
  \/ \E s \in Sessions : CreateOrderCommit(s)
  \/ \E s \in Sessions, o \in 1..MaxOrders : AddItemBegin(s, "ann", o, 1, 1, NoPrice)
  \/ \E s \in Sessions : AddItemCommit(s)
  \/ \E s \in Sessions, o \in 1..MaxOrders, paid \in SettleAmounts, tip \in RequestTips :
        ProcessPaymentBegin(s, "csh", o, 1, paid, tip)
  \/ \E s \in Sessions : ProcessPaymentCommit(s)

SpecSettle == InitSeq /\ [][NextSettle]_vars

\* orders on a table and takeaway, their items added and removed, the table
\* reset by hand, and processPayment, one request at a time
NextClose ==
  \/ \E s \in Sessions, t \in Tables \cup {NullId} : CreateOrderBegin(s, "ann", t)
  \/ \E s \in Sessions : CreateOrderCommit(s)
  \/ \E s \in Sessions, o \in 1..MaxOrders : AddItemBegin(s, "ann", o, 1, 1, NoPrice)
  \/ \E s \in Sessions : AddItemCommit(s)
  \/ \E s \in Sessions, o \in 1..MaxOrders, i \in 1..MaxItems : RemoveItemBegin(s, "ann", o, i)
  \/ \E s \in Sessions : RemoveItemCommit(s)
  \/ \E s \in Sessions, t \in Tables : UpdateTableStatusBegin(s, "ann", t, "available")
  \/ \E s \in Sessions : UpdateTableStatusWrite(s)
  \/ \E s \in Sessions, o \in 1..MaxOrders, paid \in RequestAmounts :
        ProcessPaymentBegin(s, "csh", o, 1, paid, 0)
  \/ \E s \in Sessions : ProcessPaymentCommit(s)

SpecClose == InitSeq /\ [][NextClose]_vars

\* createOrder, addItem, processPayment and cancelOrder, two requests at a
\* time, where a processPayment call may fail after any of its writes and
\* after its commit
NextAtomic ==
  \/ \E s \in Sessions : CreateOrderBegin(s, "ann", 1)
  \/ \E s \in Sessions : CreateOrderRead(s)
  \/ \E s \in Sessions : CreateOrderCommit(s)
  \/ \E s \in Sessions : AddItemBegin(s, "ann", 1, 1, 1, NoPrice)
  \/ \E s \in Sessions : AddItemRead(s)
  \/ \E s \in Sessions : AddItemCommit(s)
  \/ \E s \in Sessions, o \in 1..MaxOrders : ProcessPaymentBegin(s, "csh", o, 1, 40, 0)
  \/ \E s \in Sessions : ProcessPaymentRead(s)
  \/ \E s \in Sessions : ProcessPaymentCommit(s)
  \/ \E s \in Sessions, n \in 0..4 : ProcessPaymentRollback(s, n)
  \/ \E s \in Sessions : ProcessPaymentFetchFails(s)
  \/ \E s \in Sessions, o \in 1..MaxOrders : CancelOrderBegin(s, "adm", o)
  \/ \E s \in Sessions : CancelOrderRead(s)
  \/ \E s \in Sessions : CancelOrderCommit(s)

SpecAtomic == InitConc /\ [][NextAtomic]_vars

\* createOrder and addItem calls on order 1, two requests at a time
NextAdd ==
  \/ \E s \in Sessions : CreateOrderBegin(s, "ann", NullId)
  \/ \E s \in Sessions : CreateOrderCommit(s)
  \/ \E s \in Sessions, p \in {1, 2}, q \in 1..MaxQty : AddItemBegin(s, "ann", 1, p, q, NoPrice)
  \/ \E s \in Sessions : AddItemRead(s)
  \/ \E s \in Sessions : AddItemCommit(s)

SpecAdd == InitConc /\ [][NextAdd]_vars

\* createOrder, updateOrder, cancelOrder, updateTableStatus and deleteTable
\* on table 1 and its order, two requests at a time
NextRace ==
  \/ \E s \in Sessions : CreateOrderBegin(s, "ann", 1)
  \/ \E s \in Sessions : CreateOrderRead(s)
  \/ \E s \in Sessions : CreateOrderCommit(s)
  \/ \E s \in Sessions : UpdateOrderBegin(s, "ann", 1, 2)
  \/ \E s \in Sessions : UpdateOrderWrite(s)
  \/ \E s \in Sessions : CancelOrderBegin(s, "adm", 1)
  \/ \E s \in Sessions : CancelOrderRead(s)
  \/ \E s \in Sessions : CancelOrderCommit(s)
  \/ \E s \in Sessions, status \in {"available", "reserved"} :
        UpdateTableStatusBegin(s, "adm", 1, status)
  \/ \E s \in Sessions : UpdateTableStatusWrite(s)
  \/ \E s \in Sessions : DeleteTableBegin(s, "adm", 1)
  \/ \E s \in Sessions : DeleteTableWrite(s)

SpecRace == InitConc /\ [][NextRace]_vars

\* request bodies of updateProductStock
StockUpdates == {Adjust(0 - 1), SetStock(1), [adjustment |-> <<>>, stock_quantity |-> <<>>]}

\* createOrder, then addItem, updateItem, removeItem and cancelOrder on order
\* 1 and updateProductStock of the tracked product, two requests at a time
NextStock ==
  \/ \E s \in Sessions : CreateOrderBegin(s, "ann", NullId)
  \/ \E s \in Sessions : CreateOrderCommit(s)
  \/ \E s \in Sessions : AddItemBegin(s, "ann", 1, 1, 1, NoPrice)
  \/ \E s \in Sessions : AddItemRead(s)
  \/ \E s \in Sessions : AddItemCommit(s)
  \/ \E s \in Sessions : UpdateItemBegin(s, "ann", 1, 1, MaxQty)
  \/ \E s \in Sessions : UpdateItemRead(s)
  \/ \E s \in Sessions : UpdateItemCommit(s)
  \/ \E s \in Sessions : RemoveItemBegin(s, "ann", 1, 1)
  \/ \E s \in Sessions : RemoveItemRead(s)
  \/ \E s \in Sessions : RemoveItemCommit(s)
  \/ \E s \in Sessions : CancelOrderBegin(s, "adm", 1)
  \/ \E s \in Sessions : CancelOrderRead(s)
  \/ \E s \in Sessions : CancelOrderCommit(s)
  \/ \E s \in Sessions, body \in StockUpdates : UpdateProductStockBegin(s, "adm", 1, body)
  \/ \E s \in Sessions : UpdateProductStockWrite(s)

SpecStock == InitConc /\ [][NextStock]_vars

\* createOrder, then addItem and updateItem of the tracked product on two
\* takeaway orders, two requests at a time
NextShare ==
  \/ \E s \in Sessions : CreateOrderBegin(s, "ann", NullId)
  \/ \E s \in Sessions : CreateOrderCommit(s)
  \/ \E s \in Sessions, o \in 1..MaxOrders, q \in 1..MaxQty :
        AddItemBegin(s, "ann", o, 1, q, NoPrice)
  \/ \E s \in Sessions : AddItemRead(s)
  \/ \E s \in Sessions : AddItemCommit(s)
  \/ \E s \in Sessions, o \in 1..MaxOrders, i \in 1..MaxItems :
        UpdateItemBegin(s, "ann", o, i, MaxQty)
  \/ \E s \in Sessions : UpdateItemRead(s)
  \/ \E s \in Sessions : UpdateItemCommit(s)

SpecShare == InitConc /\ [][NextShare]_vars

\* createOrder, then addItem, updateItem, removeItem and processPayment on
\* order 1, two requests at a time
NextSnapshot ==
  \/ \E s \in Sessions : CreateOrderBegin(s, "ann", NullId)
  \/ \E s \in Sessions : CreateOrderCommit(s)
  \/ \E s \in Sessions : AddItemBegin(s, "ann", 1, 1, 1, NoPrice)
  \/ \E s \in Sessions : AddItemRead(s)
  \/ \E s \in Sessions : AddItemCommit(s)
  \/ \E s \in Sessions, i \in 1..MaxItems : UpdateItemBegin(s, "ann", 1, i, MaxQty)
  \/ \E s \in Sessions : UpdateItemRead(s)
  \/ \E s \in Sessions : UpdateItemCommit(s)
  \/ \E s \in Sessions, i \in 1..MaxItems : RemoveItemBegin(s, "ann", 1, i)
  \/ \E s \in Sessions : RemoveItemRead(s)
  \/ \E s \in Sessions : RemoveItemCommit(s)
  \/ \E s \in Sessions : ProcessPaymentBegin(s, "csh", 1, 1, 40, 0)
  \/ \E s \in Sessions : ProcessPaymentRead(s)
  \/ \E s \in Sessions : ProcessPaymentCommit(s)

SpecSnapshot == InitConc /\ [][NextSnapshot]_vars

\* products 1 and 2 both stock-tracked, with what the items of CrossItems
\* have left of their stock
CrossCatalog ==
  [Catalog EXCEPT ![1].stock_quantity = InitStock - 2,
                  ![2].track_stock = TRUE,
                  ![2].variable_price = FALSE,
                  ![2].stock_quantity = InitStock - 2]

\* two orders that hold the same two products in opposite item order
CrossItems ==
  <<NewItem(1, 1, 1, 2, 2), NewItem(1, 2, 1, 1, 1),
    NewItem(2, 2, 1, 1, 1), NewItem(2, 1, 1, 2, 2)>>

\* two open takeaway orders of ann with the items of CrossItems
InitCross ==
  /\ tables = [t \in Tables |-> NewTable]
  /\ orders = <<[NewOrder(NullId, "ann", 1) EXCEPT !.subtotal = 3, !.total_amount = 3],
                [NewOrder(NullId, "ann", 1) EXCEPT !.subtotal = 3, !.total_amount = 3]>>
  /\ items = CrossItems
  /\ products = CrossCatalog
  /\ payments = <<>>
  /\ now = 0
  /\ pair = <<>>
  /\ sess = [s \in {1, 2} |-> Blank]

\* one open order of ann on table 1 with one item of product 1
InitSeated ==
  /\ now = 0
  /\ tables = [t \in Tables |-> OccupyTable(NewTable, 1, "ann")]
  /\ orders = <<[NewOrder(1, "ann", 1) EXCEPT !.subtotal = 2, !.total_amount = 2]>>
  /\ items = <<NewItem(1, 1, 1, 2, 2)>>
  /\ products = [Catalog EXCEPT ![1].stock_quantity = InitStock - 1]
  /\ payments = <<>>
  /\ pair = <<>>
  /\ sess = [s \in {1, 2} |-> Blank]

\* MaxOrders leaves room for one more order: one createOrder at a time
NoCreateOrderInFlight == \A x \in Sessions : sess[x].op # "createOrder"

\* cancelOrder statement by statement, processPayment and createOrder on
\* table 1, two requests at a time
NextLive ==
  \/ \E s \in Sessions, o \in 1..MaxOrders : CancelOrderBegin(s, "adm", o)
  \/ \E s \in Sessions : CancelOrderRead(s)
  \/ \E s \in Sessions : CancelOrderRestore(s)
  \/ \E s \in Sessions : CancelOrderFinish(s)
  \/ \E s \in Sessions : DeadlockRollback(s)
  \/ \E s \in Sessions : ProcessPaymentBegin(s, "csh", 1, 1, 40, 0)
  \/ \E s \in Sessions : ProcessPaymentRead(s)
  \/ \E s \in Sessions : ProcessPaymentCommit(s)
  \/ \E s \in Sessions : NoCreateOrderInFlight /\ CreateOrderBegin(s, "bob", 1)
  \/ \E s \in Sessions : CreateOrderCommit(s)

\* a step of the request that session s has in flight
Proceed(s) ==
  \/ CancelOrderRead(s)
  \/ CancelOrderRestore(s)
  \/ CancelOrderFinish(s)
  \/ DeadlockRollback(s)
  \/ ProcessPaymentRead(s)
  \/ ProcessPaymentCommit(s)
  \/ CreateOrderCommit(s)

\* every request in flight keeps being scheduled, and row locks are granted
\* in the order they were asked for, so no waiter is passed over for ever
SpecLive ==
  /\ InitCross \/ InitSeated
  /\ [][NextLive]_vars
  /\ \A s \in {1, 2} : SF_vars(Proceed(s))

(***************************************************************************)
(* Concurrent pairs: both requests have returned and nothing has arrived   *)
(* since.                                                                  *)
(***************************************************************************)
PairDone == pair # <<>> /\ AllIdle

\* both requests of the pair are calls of handler o on table t
PairOnTable(o, t) ==
  /\ pair # <<>>
  /\ \A x \in Sessions : pair[1].reqs[x].op = o /\ pair[1].reqs[x].tbl = t

Results(r) == {x \in Sessions : sess[x].res = r}

OpenOrdersOf(t) ==
  {o \in 1..Len(orders) : orders[o].table_id = t /\ orders[o].status = "open"}

\* the lock check of createOrder and lockTable on the row as the pair found it
PairLockedOut(t, x) ==
  LET row == pair[1].tables[t]
  IN /\ row.locked_by_user_id # NullUser
     /\ row.locked_by_user_id # pair[1].reqs[x].actor
     /\ Time(now) - Time(row.locked_at) < maxLockAge

OneCreatedOneConflict(t) ==
  /\ Cardinality(Results("ok")) = 1
  /\ Cardinality(Results("Conflict")) = 1
  /\ tables[t].current_order_id # NullId
  /\ OpenOrdersOf(t) = {tables[t].current_order_id}

(***************************************************************************)
(* C1 as stated: two concurrent createOrder calls on the same table whose  *)
(* status is available: exactly one succeeds, the other fails with         *)
(* Conflict, and afterwards the table has one current_order and exactly    *)
(* one open order references the table.                                    *)
(***************************************************************************)
C1_AsStated ==
  \A t \in Tables :
    (PairDone /\ PairOnTable("createOrder", t)
       /\ pair[1].tables[t].status = "available")
      => OneCreatedOneConflict(t)

(***************************************************************************)
(* C1 amended: the same, for an available table that at least one of the   *)
(* two callers is not locked out of (it is unlocked, locked by that        *)
(* caller, or its lock is 30 minutes old or more).                         *)
(***************************************************************************)
C1_ConcurrentCreateOrder ==
  \A t \in Tables :
    (PairDone /\ PairOnTable("createOrder", t)
       /\ pair[1].tables[t].status = "available"
       /\ \E x \in Sessions : ~PairLockedOut(t, x))
      => OneCreatedOneConflict(t)

C1_Witness ==
  \E t \in Tables :
    /\ PairDone /\ PairOnTable("createOrder", t)
    /\ pair[1].tables[t].status = "available"
    /\ pair[1].tables[t].locked_by_user_id # NullUser
    /\ \E x \in Sessions : ~PairLockedOut(t, x)
    /\ OneCreatedOneConflict(t)

PaymentsOf(o) == {n \in 1..Len(payments) : payments[n].order_id = o}

\* both requests of the pair are calls of handler h on order o
PairOnOrder(h, o) ==
  /\ pair # <<>>
  /\ \A x \in Sessions : pair[1].reqs[x].op = h /\ pair[1].reqs[x].ord = o

\* session s returns from processPayment on an order that has a Payment row
LaterPaymentReturns(s) ==
  /\ sess[s].op = "processPayment"
  /\ sess[s].pc # "idle"
  /\ sess'[s].pc = "idle"
  /\ PaymentsOf(sess[s].ord) # {}

\* a processPayment call by u on an order that has a Payment row is answered
\* on arrival (the role gate runs before the transaction)
LaterPaymentRefused(s, u) ==
  /\ \E o \in 1..Len(orders), paid \in RequestAmounts :
       PaymentsOf(o) # {} /\ ProcessPaymentBegin(s, u, o, 1, paid, 0)
  /\ sess'[s].pc = "idle"

(***************************************************************************)
(* C2 as stated: once an order has its Payment row, every processPayment   *)
(* call on it, whoever calls, returns BadRequest; and no order ever has    *)
(* two Payment rows.                                                       *)
(***************************************************************************)
C2_AsStated ==
  [][/\ \A s \in Sessions :
          /\ LaterPaymentReturns(s) => sess'[s].res = "BadRequest"
          /\ \A u \in PayActors :
               LaterPaymentRefused(s, u) => sess'[s].res = "BadRequest"
     /\ \A o \in 1..Len(orders') : Cardinality(PaymentsOf(o)') <= 1]_vars

(***************************************************************************)
(* C2 amended: once an order has its Payment row, every processPayment     *)
(* call on it by a cashier or admin, sequential or concurrent, returns     *)
(* BadRequest (any other caller gets Forbidden) and writes nothing; and    *)
(* no order ever has two Payment rows.                                     *)
(***************************************************************************)
C2_PaymentIdempotent ==
  [][/\ \A s \in Sessions :
          /\ LaterPaymentReturns(s) =>
               /\ RoleOf(sess[s].actor) \in {"cashier", "admin"}
               /\ sess'[s].res = "BadRequest"
               /\ UNCHANGED <<tables, orders, items, products, payments>>
          /\ \A u \in PayActors :
               LaterPaymentRefused(s, u) =>
                 /\ RoleOf(u) \notin {"cashier", "admin"}
                 /\ sess'[s].res = "Forbidden"
     /\ \A o \in 1..Len(orders') : Cardinality(PaymentsOf(o)') <= 1]_vars

\* two concurrent processPayment calls on one order have returned: one paid,
\* the other was refused
C2_Witness ==
  \E o \in 1..Len(orders) :
    /\ PairDone /\ PairOnOrder("processPayment", o)
    /\ Cardinality(Results("ok")) = 1
    /\ Cardinality(Results("BadRequest")) = 1
    /\ Cardinality(PaymentsOf(o)) = 1

RECURSIVE SumListed(_, _, _)
\* the sum of unit_price * quantity - discount over the non-cancelled items of
\* order o among the first n rows
SumListed(its, o, n) ==
  IF n = 0 THEN 0
  ELSE SumListed(its, o, n - 1)
       + (IF its[n].order_id = o /\ its[n].status # "cancelled"
            THEN its[n].unit_price * its[n].quantity - its[n].discount_amount
            ELSE 0)

\* session s commits an item operation
ItemOpCommits(s) ==
  /\ sess[s].op \in {"addItem", "updateItem", "removeItem"}
  /\ sess[s].pc = "locked"
  /\ sess'[s].pc = "idle"
  /\ sess'[s].res = "ok"

(***************************************************************************)
(* C3: after every committed addItem, updateItem or removeItem on an       *)
(* order, order.subtotal is the sum over the order's non-cancelled items   *)
(* of unit_price * quantity - discount, and order.total is                 *)
(* subtotal + tax - order.discount.                                        *)
(***************************************************************************)
C3_TotalsMatchItems ==
  [][\A s \in Sessions :
       ItemOpCommits(s) =>
         LET o == sess[s].ord
         IN /\ orders'[o].subtotal = SumListed(items', o, Len(items'))
            /\ orders'[o].total_amount =
                 orders'[o].subtotal + orders'[o].tax_amount - orders'[o].discount_amount]_vars

RECURSIVE SumQuantities(_, _, _)
\* the sum of the quantities of the non-cancelled items of product p among
\* the first n rows
SumQuantities(its, p, n) ==
  IF n = 0 THEN 0
  ELSE SumQuantities(its, p, n - 1)
       + (IF its[n].product_id = p /\ its[n].status # "cancelled"
            THEN its[n].quantity
            ELSE 0)

(***************************************************************************)
(* C4: for every tracked product, after any sequence of addItem,           *)
(* updateItem, removeItem and cancelOrder, stock is the initial stock less *)
(* the quantities of all non-cancelled items of that product.              *)
(***************************************************************************)
C4_StockInvariant ==
  \A p \in DOMAIN products :
    products[p].track_stock =>
      products[p].stock_quantity =
        Catalog[p].stock_quantity - SumQuantities(items, p, Len(items))

TerminalStatuses == {"paid", "cancelled", "void"}

\* session s returns from processPayment on an order that is cancelled or void
DeadPaymentReturns(s) ==
  /\ sess[s].op = "processPayment"
  /\ sess[s].pc # "idle"
  /\ sess'[s].pc = "idle"
  /\ sess[s].ord \in 1..Len(orders)
  /\ orders[sess[s].ord].status \in {"cancelled", "void"}

\* a processPayment call by u on a cancelled or void order is answered on
\* arrival (the role gate runs before the transaction)
DeadPaymentRefused(s, u) ==
  /\ \E o \in 1..Len(orders), m \in {1, 2}, paid \in RequestAmounts :
       /\ orders[o].status \in {"cancelled", "void"}
       /\ ProcessPaymentBegin(s, u, o, m, paid, 0)
  /\ sess'[s].pc = "idle"

TerminalStatusKept ==
  \A o \in 1..Len(orders) :
    orders[o].status \in TerminalStatuses =>
      /\ o \in 1..Len(orders')
      /\ orders'[o].status = orders[o].status

(***************************************************************************)
(* C5 as stated: once an order is paid, cancelled or void no operation     *)
(* changes its status, and every processPayment call on a cancelled or     *)
(* void order, whoever calls, returns BadRequest.                          *)
(***************************************************************************)
C5_AsStated ==
  [][/\ TerminalStatusKept
     /\ \A s \in Sessions :
          /\ DeadPaymentReturns(s) => sess'[s].res = "BadRequest"
          /\ \A u \in PayActors :
               DeadPaymentRefused(s, u) => sess'[s].res = "BadRequest"]_vars

(***************************************************************************)
(* C5 amended: once an order is paid, cancelled or void no operation       *)
(* changes its status, and processPayment on a cancelled or void order by  *)
(* a cashier or admin returns BadRequest (any other caller gets Forbidden) *)
(* and writes nothing.                                                     *)
(***************************************************************************)
C5_TerminalStates ==
  [][/\ TerminalStatusKept
     /\ \A s \in Sessions :
          /\ DeadPaymentReturns(s) =>
               /\ RoleOf(sess[s].actor) \in {"cashier", "admin"}
               /\ sess'[s].res = "BadRequest"
               /\ UNCHANGED <<tables, orders, items, products, payments>>
          /\ \A u \in PayActors :
               DeadPaymentRefused(s, u) =>
                 /\ RoleOf(u) \notin {"cashier", "admin"}
                 /\ sess'[s].res = "Forbidden"]_vars

\* one order is paid, and a cashier's processPayment has read a void order and
\* is about to be refused
C5_Witness ==
  /\ \E o \in 1..Len(orders) : orders[o].status = "paid"
  /\ \E s \in Sessions :
       /\ sess[s].op = "processPayment"
       /\ sess[s].pc = "locked"
       /\ sess[s].actor = "csh"
       /\ sess[s].snapO # <<>>
       /\ sess[s].snapO[1].status = "void"

(***************************************************************************)
(* C6: in every reachable state at most one order with status open         *)
(* references any given table, whatever sequence of createOrder,           *)
(* updateTableStatus, lockTable, unlockTable, cancelOrder and              *)
(* processPayment calls has run.                                           *)
(***************************************************************************)
C6_OneOpenOrderPerTable ==
  \A t \in Tables : Cardinality(OpenOrdersOf(t)) <= 1

(***************************************************************************)
(* C7: in every committed state a table's current_order is non-null if and *)
(* only if the table's status is occupied.                                 *)
(***************************************************************************)
C7_CurrentOrderIffOccupied ==
  \A t \in Tables :
    tables[t].current_order_id # NullId <=> tables[t].status = "occupied"

\* the step adds one Payment row, for the order that the processPayment call
\* of some session moves from open to paid in the same step
PaymentCreatedByProcessPayment ==
  /\ Len(payments') = Len(payments) + 1
  /\ \E s \in Sessions :
       LET o == sess[s].ord
       IN /\ sess[s].op = "processPayment"
          /\ sess[s].pc = "locked"
          /\ sess'[s].pc = "idle"
          /\ sess'[s].res = "ok"
          /\ payments'[Len(payments')].order_id = o
          /\ payments'[Len(payments')].amount_due = orders[o].total_amount
          /\ orders[o].status = "open"
          /\ orders'[o].status = "paid"

(***************************************************************************)
(* C8: in every reachable state an order is paid if and only if exactly    *)
(* one Payment row references it; a Payment row is created only by the     *)
(* processPayment call that moves the order to paid, and the rows that     *)
(* exist are never changed or removed.                                     *)
(***************************************************************************)
C8_PaidIffOnePayment ==
  /\ [](\A o \in 1..Len(orders) :
          orders[o].status = "paid" <=> Cardinality(PaymentsOf(o)) = 1)
  /\ [][/\ Len(payments') >= Len(payments)
        /\ \A n \in 1..Len(payments) : payments'[n] = payments[n]
        /\ payments' # payments => PaymentCreatedByProcessPayment]_vars

\* one order is paid and has its one Payment row, another order was cancelled
\* and has none
C8_Witness ==
  /\ \E o \in 1..Len(orders) :
       orders[o].status = "paid" /\ Cardinality(PaymentsOf(o)) = 1
  /\ \E o \in 1..Len(orders) :
       orders[o].status = "cancelled" /\ PaymentsOf(o) = {}
  /\ AllIdle

\* session s returns from lockTable on table t, called by u
LockTableReturns(s, t, u) ==
  /\ sess[s].op = "lockTable"
  /\ sess[s].pc = "locked"
  /\ sess[s].tbl = t
  /\ sess[s].actor = u
  /\ sess'[s].pc = "idle"

\* the age of the lock on a row, in milliseconds
LockAge(row) == Time(now) - Time(row.locked_at)

HeldByOther(row, u) ==
  row.locked_by_user_id # NullUser /\ row.locked_by_user_id # u

(***************************************************************************)
(* C9: lockTable by actor B on a table whose lock is held by a different   *)
(* actor A and is less than 30 minutes old fails with Conflict and leaves  *)
(* the lock holder and the lock time unchanged.                            *)
(***************************************************************************)
C9_FreshLockRefused ==
  [][\A s \in Sessions, t \in Tables, u \in Users :
       (LockTableReturns(s, t, u)
          /\ HeldByOther(tables[t], u)
          /\ LockAge(tables[t]) < 30 * 60 * 1000)
         => /\ sess'[s].res = "Conflict"
            /\ tables'[t] = tables[t]]_vars

\* two lockTable calls on a table that a third actor locked less than 30
\* minutes before have both returned Conflict, and the lock is as it was
C9_Witness ==
  \E t \in Tables :
    /\ PairDone /\ PairOnTable("lockTable", t)
    /\ \A x \in Sessions : HeldByOther(pair[1].tables[t], pair[1].reqs[x].actor)
    /\ LockAge(pair[1].tables[t]) = 15 * 60 * 1000
    /\ Results("Conflict") = Sessions
    /\ tables[t] = pair[1].tables[t]

\* the three cases in which lockTable is granted
LockGranted(row, u) ==
  \/ row.locked_by_user_id = NullUser
  \/ row.locked_by_user_id = u
  \/ HeldByOther(row, u) /\ LockAge(row) >= 30 * 60 * 1000

(***************************************************************************)
(* C10: lockTable on a table succeeds, making the caller the lock holder   *)
(* with the current time as lock time, exactly when the table is unlocked, *)
(* locked by the caller, or locked by another actor for 30 minutes or      *)
(* more; otherwise it changes nothing.  Two concurrent lockTable calls by  *)
(* different actors on an unlocked table end with exactly one succeeding.  *)
(***************************************************************************)
C10_LockGrantedInThreeCases ==
  /\ [][\A s \in Sessions, t \in Tables, u \in Users :
          LockTableReturns(s, t, u) =>
            /\ sess'[s].res = "ok" <=> LockGranted(tables[t], u)
            /\ sess'[s].res = "ok" =>
                 tables'[t] = [tables[t] EXCEPT !.locked_by_user_id = u,
                                                !.locked_at = now]
            /\ sess'[s].res # "ok" => tables'[t] = tables[t]]_vars
  /\ [](\A t \in Tables :
          (/\ PairDone /\ PairOnTable("lockTable", t)
           /\ pair[1].tables[t].locked_by_user_id = NullUser
           /\ pair[1].reqs[1].actor # pair[1].reqs[2].actor)
            => /\ Cardinality(Results("ok")) = 1
               /\ Cardinality(Results("Conflict")) = 1
               /\ \E x \in Sessions :
                    /\ sess[x].res = "ok"
                    /\ tables[t].locked_by_user_id = pair[1].reqs[x].actor)

\* two lockTable calls by different actors on an unlocked table have returned,
\* one granted and one refused
C10_Witness ==
  \E t \in Tables :
    /\ PairDone /\ PairOnTable("lockTable", t)
    /\ pair[1].tables[t].locked_by_user_id = NullUser
    /\ pair[1].reqs[1].actor # pair[1].reqs[2].actor
    /\ Cardinality(Results("ok")) = 1
    /\ Cardinality(Results("Conflict")) = 1
    /\ tables[t].locked_at = now

\* session s returns from unlockTable on table t, called by u
UnlockTableReturns(s, t, u) ==
  /\ sess[s].op = "unlockTable"
  /\ sess[s].pc = "locked"
  /\ sess[s].tbl = t
  /\ sess[s].actor = u
  /\ sess'[s].pc = "idle"

HolderOrAdmin(row, u) ==
  row.locked_by_user_id = u \/ RoleOf(u) = "admin"

(***************************************************************************)
(* C11: unlockTable on a table fails with Forbidden, leaving the lock      *)
(* holder and lock time unchanged, exactly when the caller is neither the  *)
(* table's lock holder nor an admin; when it succeeds it clears the lock   *)
(* holder and the lock time.                                               *)
(***************************************************************************)
C11_ReleaseForbidden ==
  [][\A s \in Sessions, t \in Tables, u \in Users :
       UnlockTableReturns(s, t, u) =>
         /\ sess'[s].res = "Forbidden" <=> ~HolderOrAdmin(tables[t], u)
         /\ sess'[s].res = "Forbidden" =>
              /\ tables'[t].locked_by_user_id = tables[t].locked_by_user_id
              /\ tables'[t].locked_at = tables[t].locked_at
         /\ sess'[s].res = "ok" =>
              /\ tables'[t].locked_by_user_id = NullUser
              /\ tables'[t].locked_at = NullTime]_vars

\* two unlockTable calls on a locked table have returned: the holder's (or an
\* admin's) cleared the lock, the other caller's was refused
C11_Witness ==
  \E t \in Tables :
    /\ PairDone /\ PairOnTable("unlockTable", t)
    /\ pair[1].tables[t].locked_by_user_id # NullUser
    /\ \E x \in Sessions :
         /\ HolderOrAdmin(pair[1].tables[t], pair[1].reqs[x].actor)
         /\ sess[x].res = "ok"
    /\ \E x \in Sessions :
         /\ ~HolderOrAdmin(pair[1].tables[t], pair[1].reqs[x].actor)
         /\ sess[x].res = "Forbidden"
    /\ tables[t].locked_by_user_id = NullUser
    /\ tables[t].locked_at = NullTime

\* table row has an open order attached
HasActiveOrder(row) ==
  /\ row.current_order_id # NullId
  /\ orders[row.current_order_id].status = "open"

(***************************************************************************)
(* C12: unlockTable by the lock holder or by an admin on a table that      *)
(* still has an active order attached fails with Conflict and leaves the   *)
(* lock holder, the status and the current order unchanged.                *)
(***************************************************************************)
C12_ReleaseWithActiveOrder ==
  [][\A s \in Sessions, t \in Tables, u \in Users :
       (UnlockTableReturns(s, t, u)
          /\ HolderOrAdmin(tables[t], u)
          /\ HasActiveOrder(tables[t]))
         => /\ sess'[s].res = "Conflict"
            /\ tables'[t].locked_by_user_id = tables[t].locked_by_user_id
            /\ tables'[t].status = tables[t].status
            /\ tables'[t].current_order_id = tables[t].current_order_id]_vars

\* session s takes a step of a lockTable or unlockTable call
LockOperationStep(s) ==
  /\ sess'[s] # sess[s]
  /\ \/ sess[s].op \in {"lockTable", "unlockTable"}
     \/ sess'[s].op \in {"lockTable", "unlockTable"}

(***************************************************************************)
(* C13: every lockTable and unlockTable call, successful or failed, leaves *)
(* the status and the current order of every table unchanged.              *)
(***************************************************************************)
C13_LockOpsKeepStatus ==
  [][\A s \in Sessions :
       LockOperationStep(s) =>
         \A t \in Tables :
           /\ tables'[t].status = tables[t].status
           /\ tables'[t].current_order_id = tables[t].current_order_id]_vars

\* a lockTable call and an unlockTable call on a reserved table that still has
\* its order have both succeeded; status and current order are as they were
C13_Witness ==
  \E t \in Tables :
    /\ PairDone
    /\ \A x \in Sessions : pair[1].reqs[x].tbl = t
    /\ {pair[1].reqs[x].op : x \in Sessions} = {"lockTable", "unlockTable"}
    /\ Results("ok") = Sessions
    /\ pair[1].tables[t].status = "reserved"
    /\ pair[1].tables[t].current_order_id # NullId
    /\ tables[t].status = "reserved"
    /\ tables[t].current_order_id = pair[1].tables[t].current_order_id

\* session s returns from createOrder for table t, called by u
CreateOrderReturns(s, t, u) ==
  /\ sess[s].op = "createOrder"
  /\ sess[s].pc = "locked"
  /\ sess[s].tbl = t
  /\ sess[s].actor = u
  /\ sess'[s].pc = "idle"

OccupiedWithOrder(row) ==
  row.status = "occupied" /\ row.current_order_id # NullId

FreshlyLockedByOther(row, u) ==
  HeldByOther(row, u) /\ LockAge(row) < 30 * 60 * 1000

(***************************************************************************)
(* C14 as stated: createOrder for a table inserts no order and leaves the  *)
(* table row unchanged, returning Conflict when the table is occupied with *)
(* a current order, BadRequest when its status is maintenance, and         *)
(* Conflict when it is locked by another actor for less than 30 minutes.   *)
(***************************************************************************)
C14_AsStated ==
  [][\A s \in Sessions, t \in Tables, u \in Users :
       CreateOrderReturns(s, t, u) =>
         /\ OccupiedWithOrder(tables[t]) =>
              sess'[s].res = "Conflict" /\ UNCHANGED <<orders, tables>>
         /\ tables[t].status = "maintenance" =>
              sess'[s].res = "BadRequest" /\ UNCHANGED <<orders, tables>>
         /\ FreshlyLockedByOther(tables[t], u) =>
              sess'[s].res = "Conflict" /\ UNCHANGED <<orders, tables>>]_vars

(***************************************************************************)
(* C14 amended: in each of the three cases createOrder inserts no order    *)
(* and leaves the table row unchanged; the error is Conflict for an        *)
(* occupied table with a current order, else BadRequest for a table under  *)
(* maintenance (whoever holds its lock), else Conflict for a table locked  *)
(* by another actor for less than 30 minutes.                              *)
(***************************************************************************)
C14_CreateOrderRejected ==
  [][\A s \in Sessions, t \in Tables, u \in Users :
       (CreateOrderReturns(s, t, u)
          /\ \/ OccupiedWithOrder(tables[t])
             \/ tables[t].status = "maintenance"
             \/ FreshlyLockedByOther(tables[t], u))
         => /\ UNCHANGED <<orders, tables>>
            /\ sess'[s].res =
                 IF OccupiedWithOrder(tables[t]) THEN "Conflict"
                 ELSE IF tables[t].status = "maintenance" THEN "BadRequest"
                 ELSE "Conflict"]_vars

\* createOrder by u has read a table under maintenance whose lock another
\* actor took less than 30 minutes before, and is about to be refused
C14_Witness ==
  \E s \in Sessions, t \in Tables :
    /\ sess[s].op = "createOrder"
    /\ sess[s].pc = "locked"
    /\ sess[s].tbl = t
    /\ tables[t].status = "maintenance"
    /\ FreshlyLockedByOther(tables[t], sess[s].actor)
    /\ Len(orders) > 0

(***************************************************************************)
(* C15: a successful createOrder for a table by actor A adds, in one step, *)
(* one order with status open owned by A on that table, and leaves the     *)
(* table occupied, its current order the new order's id, and its lock      *)
(* held by A as of the current time; no other order row changes.           *)
(***************************************************************************)
C15_CreateOrderAtomic ==
  [][\A s \in Sessions, t \in Tables, u \in Users :
       (CreateOrderReturns(s, t, u) /\ sess'[s].res = "ok") =>
         LET id == Len(orders) + 1
         IN /\ Len(orders') = id
            /\ \A o \in 1..Len(orders) : orders'[o] = orders[o]
            /\ orders'[id].status = "open"
            /\ orders'[id].server_id = u
            /\ orders'[id].table_id = t
            /\ tables'[t].status = "occupied"
            /\ tables'[t].current_order_id = id
            /\ tables'[t].locked_by_user_id = u
            /\ tables'[t].locked_at = now]_vars

\* of two concurrent createOrder calls one has succeeded, after the first tick:
\* its order is open and owned by the caller, the table is occupied by it and
\* locked by the caller as of now
C15_Witness ==
  \E t \in Tables, x \in Sessions :
    /\ PairDone /\ PairOnTable("createOrder", t)
    /\ sess[x].res = "ok"
    /\ now > 0
    /\ Len(orders) > 0
    /\ orders[Len(orders)].status = "open"
    /\ orders[Len(orders)].server_id = pair[1].reqs[x].actor
    /\ orders[Len(orders)].table_id = t
    /\ tables[t].status = "occupied"
    /\ tables[t].current_order_id = Len(orders)
    /\ tables[t].locked_by_user_id = pair[1].reqs[x].actor
    /\ tables[t].locked_at = now

\* session s takes a step of a call that concerns no table: createOrder with
\* a null table, or processPayment or cancelOrder on an order whose table_id
\* is null
TakeawayStep(s) ==
  /\ sess'[s] # sess[s]
  /\ \E r \in {sess[s], sess'[s]} :
       \/ r.op = "createOrder" /\ r.tbl = NullId
       \/ /\ r.op \in {"processPayment", "cancelOrder"}
          /\ r.ord \in 1..Len(orders)
          /\ orders[r.ord].table_id = NullId

(***************************************************************************)
(* C16: createOrder with a null table, and processPayment or cancelOrder   *)
(* on an order whose table reference is null, leave the status, current    *)
(* order and lock fields of every table unchanged.                         *)
(***************************************************************************)
C16_TakeawayKeepsTables ==
  [][\A s \in Sessions : TakeawayStep(s) => tables' = tables]_vars

\* a table is occupied by one order while two concurrent calls on a takeaway
\* order, a payment and a cancellation, have returned, one of them successful;
\* the table is as they found it
C16_Witness ==
  \E o \in 1..Len(orders), t \in Tables :
    /\ PairDone
    /\ orders[o].table_id = NullId
    /\ \A x \in Sessions : pair[1].reqs[x].ord = o
    /\ {pair[1].reqs[x].op : x \in Sessions} = {"processPayment", "cancelOrder"}
    /\ Cardinality(Results("ok")) = 1
    /\ orders[o].status \in {"paid", "cancelled"}
    /\ tables[t].status = "occupied"
    /\ tables = pair[1].tables

ItemOps == {"addItem", "updateItem", "removeItem"}

\* session s, which found order o and holds its row, returns from an item
\* handler called by u
ItemOpReturns(s, o, u) ==
  /\ sess[s].op \in ItemOps
  /\ sess[s].pc = "locked"
  /\ sess[s].ord = o
  /\ sess[s].snapO # <<>>
  /\ sess[s].actor = u
  /\ sess'[s].pc = "idle"

\* the items, the orders with their totals and the products with their stock
\* are as they were
ItemsTotalsStockKept == items' = items /\ orders' = orders /\ products' = products

(***************************************************************************)
(* C17: addItem, updateItem and removeItem on an order whose status is not *)
(* open fail with BadRequest and leave the order's items, its totals and   *)
(* every product's stock unchanged.                                        *)
(***************************************************************************)
C17_ClosedOrderRejectsItemOps ==
  [][\A s \in Sessions, u \in Users, o \in 1..Len(orders) :
       (ItemOpReturns(s, o, u) /\ orders[o].status # "open") =>
          sess'[s].res = "BadRequest" /\ ItemsTotalsStockKept]_vars

\* addItem and cancelOrder arrived together on an order without items; the
\* order is cancelled and addItem, whose product is in stock, got BadRequest
C17_Witness ==
  \E x, y \in Sessions :
    /\ PairDone
    /\ pair[1].reqs[x].op = "addItem" /\ pair[1].reqs[x].ord = 1
    /\ pair[1].reqs[y].op = "cancelOrder" /\ pair[1].reqs[y].ord = 1
    /\ sess[x].res = "BadRequest"
    /\ sess[y].res = "ok"
    /\ orders[1].status = "cancelled"
    /\ items = <<>>
    /\ products = Catalog

(***************************************************************************)
(* C18: addItem, updateItem and removeItem on an open order fail with      *)
(* Forbidden, changing nothing, exactly when the actor is neither the      *)
(* order's owning server nor an admin or moderator.                        *)
(***************************************************************************)
C18_ItemOpsForbidden ==
  [][\A s \in Sessions, u \in Users, o \in 1..Len(orders) :
       (ItemOpReturns(s, o, u) /\ orders[o].status = "open") =>
          /\ sess'[s].res = "Forbidden" <=>
               ~(orders[o].server_id = u \/ RoleOf(u) \in {"admin", "moderator"})
          /\ sess'[s].res = "Forbidden" => ItemsTotalsStockKept]_vars

\* another server and a moderator called addItem together on ann's open
\* order: the server got Forbidden, the moderator's item is the only one
C18_Witness ==
  \E x, y \in Sessions :
    /\ PairDone
    /\ pair[1].reqs[x].op = "addItem" /\ pair[1].reqs[x].actor = "bob"
    /\ pair[1].reqs[y].op = "addItem" /\ pair[1].reqs[y].actor = "mod"
    /\ sess[x].res = "Forbidden"
    /\ sess[y].res = "ok"
    /\ orders[1].status = "open" /\ orders[1].server_id = "ann"
    /\ Len(items) = 1

\* session s returns from addItem of quantity q of product p, having found
\* an open order its actor may modify and p active, available and tracked
TrackedAddReturns(s, p, q) ==
  /\ sess[s].op = "addItem"
  /\ sess[s].pc = "locked"
  /\ sess[s].prod = p
  /\ sess[s].qty = q
  /\ sess'[s].pc = "idle"
  /\ sess[s].snapO # <<>>
  /\ sess[s].snapO[1].status = "open"
  /\ \/ sess[s].snapO[1].server_id = sess[s].actor
     \/ RoleOf(sess[s].actor) \in {"admin", "moderator"}
  /\ sess[s].snapP # <<>>
  /\ sess[s].snapP[1].is_active
  /\ sess[s].snapP[1].is_available
  /\ sess[s].snapP[1].track_stock

\* one row was appended to items, the rows before it are as they were
OneItemInserted ==
  /\ Len(items') = Len(items) + 1
  /\ \A i \in 1..Len(items) : items'[i] = items[i]

(***************************************************************************)
(* C19: addItem of quantity q for a product that tracks stock fails with   *)
(* BadRequest when the product's stock_quantity is less than q, inserting  *)
(* no item and leaving stock and order totals unchanged; otherwise it      *)
(* inserts one item with subtotal = unit_price * q and decrements the      *)
(* stock by exactly q.                                                     *)
(***************************************************************************)
C19_AddItemStockCheck ==
  [][\A s \in Sessions, p \in DOMAIN products, q \in 1..MaxQty :
       TrackedAddReturns(s, p, q) =>
         IF sess[s].snapP[1].stock_quantity < q
           THEN sess'[s].res = "BadRequest" /\ ItemsTotalsStockKept
           ELSE /\ sess'[s].res = "ok"
                /\ OneItemInserted
                /\ items'[Len(items')].quantity = q
                /\ items'[Len(items')].subtotal = items'[Len(items')].unit_price * q
                /\ products'[p].stock_quantity = products[p].stock_quantity - q]_vars

\* session s returns from the UPDATE of updateProduct
UpdateProductReturns(s) ==
  /\ sess[s].op = "updateProduct"
  /\ sess[s].pc = "read"
  /\ sess'[s].pc = "idle"

\* session s commits updateItem of item i to quantity q
UpdateItemCommits(s, i, q) ==
  /\ sess[s].op = "updateItem"
  /\ sess[s].pc = "locked"
  /\ sess[s].itm = i
  /\ sess[s].qty = q
  /\ sess'[s].pc = "idle"
  /\ sess'[s].res = "ok"

(***************************************************************************)
(* C20: an order item's unit price is fixed at add time: no step changes   *)
(* the unit_price of an existing item, a change of the product's catalog   *)
(* price changes neither the unit_price nor the subtotal of existing       *)
(* items, and updateItem recomputes the item's subtotal from the item's    *)
(* own unit price, not from the current catalog price.                     *)
(***************************************************************************)
C20_UnitPriceFixedAtAdd ==
  [][/\ \A i \in 1..Len(items) : items'[i].unit_price = items[i].unit_price
     /\ \A s \in Sessions : UpdateProductReturns(s) => items' = items
     /\ \A s \in Sessions, i \in 1..Len(items), q \in 1..MaxQty :
          UpdateItemCommits(s, i, q) => items'[i].subtotal = items[i].unit_price * q]_vars

\* the catalog price went from 2 to 3 after item 1 was added; then updateItem
\* set item 1 to quantity 1 while addItem added item 2 at the new price:
\* item 1 keeps unit price 2 and has subtotal 2
C20_Witness ==
  \E x, y \in Sessions :
    /\ PairDone
    /\ pair[1].reqs[x].op = "updateItem" /\ pair[1].reqs[x].itm = 1 /\ pair[1].reqs[x].qty = 1
    /\ pair[1].reqs[y].op = "addItem"
    /\ sess[x].res = "ok" /\ sess[y].res = "ok"
    /\ Len(items) = 2
    /\ items[1].unit_price = 2 /\ items[1].quantity = 1 /\ items[1].subtotal = 2
    /\ items[2].unit_price = 3
    /\ products[1].price = 3

\* the request supplies a price that is negative or not a number
BadSuppliedPrice(price) == price.given /\ (~price.numeric \/ price.value < 0)

\* addItem arrives at session s with a negative or non-numeric unit_price
AddItemArrivesWithBadPrice(s) ==
  \E u \in Users, o \in 1..MaxOrders, p \in DOMAIN products, q \in 1..MaxQty,
     price \in SuppliedPrices :
       BadSuppliedPrice(price) /\ AddItemBegin(s, u, o, p, q, price)

\* session s commits an addItem that inserts an item
AddItemInserts(s) ==
  /\ sess[s].op = "addItem"
  /\ sess[s].pc = "locked"
  /\ sess'[s].pc = "idle"
  /\ sess'[s].res = "ok"

\* a price in thousandths as a DECIMAL(10,2) column keeps it, in cents
RoundedToCents(v) == (v + 5) \div 10

\* the statement as written: a supplied price is stored as it is
C21_AsStated ==
  [][\A s \in Sessions :
       /\ AddItemArrivesWithBadPrice(s) =>
            sess'[s].res = "BadRequest" /\ items' = items
       /\ AddItemInserts(s) =>
            LET product == sess[s].snapP[1]
                price == sess[s].price
                item == items'[Len(items')]
            IN IF product.variable_price /\ price.given
                 THEN item.unit_price * 10 = price.value
                 ELSE item.unit_price = product.price]_vars

(***************************************************************************)
(* C21: in addItem, when the product has variable_price and the caller     *)
(* supplies a non-negative price, the item's unit price is the supplied    *)
(* price rounded to two decimals; otherwise it is the catalog price; a     *)
(* negative or non-numeric supplied price is rejected with BadRequest and  *)
(* no item is inserted.                                                    *)
(***************************************************************************)
C21_UnitPriceResolution ==
  [][\A s \in Sessions :
       /\ AddItemArrivesWithBadPrice(s) =>
            sess'[s].res = "BadRequest" /\ items' = items
       /\ AddItemInserts(s) =>
            LET product == sess[s].snapP[1]
                price == sess[s].price
                item == items'[Len(items')]
            IN /\ Len(items') = Len(items) + 1
               /\ ~BadSuppliedPrice(price)
               /\ IF product.variable_price /\ price.given
                    THEN item.unit_price = RoundedToCents(price.value)
                    ELSE item.unit_price = product.price]_vars

\* the order holds an item of the variable-price product at the supplied
\* 0.03 (catalog price 0.01) and an item of the other product at its catalog
\* price
C21_Witness ==
  \E i, j \in 1..Len(items) :
    /\ items[i].product_id = 2 /\ products[2].variable_price
    /\ items[i].unit_price = 3 /\ products[2].price = 1
    /\ items[j].product_id = 1 /\ ~products[1].variable_price
    /\ items[j].unit_price = products[1].price

\* session s returns from an item handler on item i, having found an open
\* order its actor may modify and the item in it
ItemCallReturns(s, op, i) ==
  /\ sess[s].op = op
  /\ sess[s].pc = "locked"
  /\ sess[s].itm = i
  /\ sess'[s].pc = "idle"
  /\ sess[s].snapO # <<>>
  /\ sess[s].snapO[1].status = "open"
  /\ \/ sess[s].snapO[1].server_id = sess[s].actor
     \/ RoleOf(sess[s].actor) \in {"admin", "moderator"}
  /\ sess[s].snapI # <<>>

(***************************************************************************)
(* C22: updateItem to a new quantity computes delta = newQuantity -        *)
(* oldQuantity; for a tracked product with delta > 0 it fails with         *)
(* BadRequest, changing nothing, when the stock is less than delta; on     *)
(* success the stock changes by exactly -delta and the item's quantity     *)
(* becomes newQuantity.                                                    *)
(***************************************************************************)
C22_UpdateItemStockDelta ==
  [][\A s \in Sessions, i \in 1..Len(items) :
       (/\ ItemCallReturns(s, "updateItem", i)
        /\ sess[s].snapI[1].status # "cancelled"
        /\ sess[s].snapP[1].track_stock) =>
          LET p == items[i].product_id
              delta == sess[s].qty - items[i].quantity
          IN IF delta > 0 /\ products[p].stock_quantity < delta
               THEN sess'[s].res = "BadRequest" /\ ItemsTotalsStockKept
               ELSE /\ sess'[s].res = "ok"
                    /\ products'[p].stock_quantity = products[p].stock_quantity - delta
                    /\ items'[i].quantity = sess[s].qty]_vars

\* updateItem to quantity 2 and addItem of quantity 1 arrived together on an
\* order whose one item had taken one of the two in stock: the update took
\* the other, so addItem found none left
C22_Witness ==
  \E x, y \in Sessions :
    /\ PairDone
    /\ pair[1].reqs[x].op = "updateItem" /\ pair[1].reqs[x].itm = 1 /\ pair[1].reqs[x].qty = 2
    /\ pair[1].reqs[y].op = "addItem" /\ pair[1].reqs[y].actor = "ann"
    /\ sess[x].res = "ok"
    /\ sess[y].res = "BadRequest"
    /\ orders[1].status = "open"
    /\ Len(items) = 1
    /\ items[1].quantity = 2 /\ items[1].status = "pending"
    /\ products[1].stock_quantity = 0

RECURSIVE SumSubtotals(_, _, _)
\* the sum of subtotal - discount over the non-cancelled items of order o
\* among the first n rows
SumSubtotals(its, o, n) ==
  IF n = 0 THEN 0
  ELSE SumSubtotals(its, o, n - 1)
       + (IF its[n].order_id = o /\ its[n].status # "cancelled"
            THEN its[n].subtotal - its[n].discount_amount
            ELSE 0)

(***************************************************************************)
(* C23: removeItem on a non-cancelled item of an open order marks the item *)
(* cancelled without deleting it, restores exactly the item's quantity to  *)
(* the product's stock when the product tracks stock, and recomputes the   *)
(* order totals so that the item no longer counts.                         *)
(***************************************************************************)
C23_RemoveItemCancelsAndRestores ==
  [][\A s \in Sessions, i \in 1..Len(items) :
       (ItemCallReturns(s, "removeItem", i) /\ items[i].status # "cancelled") =>
          LET o == items[i].order_id
              p == items[i].product_id
          IN /\ sess'[s].res = "ok"
             /\ Len(items') = Len(items)
             /\ items'[i] = [items[i] EXCEPT !.status = "cancelled"]
             /\ \A j \in 1..Len(items) \ {i} : items'[j] = items[j]
             /\ \A r \in DOMAIN products \ {p} : products'[r] = products[r]
             /\ products'[p].stock_quantity =
                  IF products[p].track_stock
                    THEN products[p].stock_quantity + items[i].quantity
                    ELSE products[p].stock_quantity
             /\ orders'[o].subtotal = SumSubtotals(items', o, Len(items'))
             /\ orders'[o].total_amount =
                  orders'[o].subtotal + orders'[o].tax_amount - orders'[o].discount_amount]_vars

\* removeItem of item 1 and addItem arrived together and both succeeded:
\* item 1 is still there, cancelled, its unit is back in stock, and the
\* order's subtotal is the new item's alone
C23_Witness ==
  \E x, y \in Sessions :
    /\ PairDone
    /\ pair[1].reqs[x].op = "removeItem" /\ pair[1].reqs[x].itm = 1
    /\ pair[1].reqs[y].op = "addItem"
    /\ sess[x].res = "ok" /\ sess[y].res = "ok"
    /\ Len(items) = 2
    /\ items[1].status = "cancelled" /\ items[1].quantity = 1
    /\ items[2].status = "pending"
    /\ products[1].stock_quantity = Catalog[1].stock_quantity - items[2].quantity
    /\ orders[1].subtotal = items[2].subtotal

\* session s, holding the row of order o, returns from cancelOrder
CancelOrderReturns(s, o) ==
  /\ sess[s].op = "cancelOrder"
  /\ sess[s].pc = "locked"
  /\ sess[s].ord = o
  /\ sess[s].snapO # <<>>
  /\ sess'[s].pc = "idle"

\* cancelOrder called by u on order o returns in the step of its arrival
CancelOrderTurnedAway(s, o, u) == CancelOrderBegin(s, u, o) /\ sess'[s].pc = "idle"

\* the orders, the items, the stock and the tables are as they were
OrderItemsStockTablesKept ==
  orders' = orders /\ items' = items /\ products' = products /\ tables' = tables

\* the statement as written: BadRequest whoever calls
C24_AsStated ==
  [][\A s \in Sessions, u \in Users, o \in 1..Len(orders) :
       orders[o].status \in TerminalStatuses =>
         /\ CancelOrderTurnedAway(s, o, u) =>
              sess'[s].res = "BadRequest" /\ OrderItemsStockTablesKept
         /\ CancelOrderReturns(s, o) =>
              sess'[s].res = "BadRequest" /\ OrderItemsStockTablesKept]_vars

(***************************************************************************)
(* C24: cancelOrder on an order that is paid, cancelled or void changes    *)
(* neither the order, its items, the stock nor the table; called by an     *)
(* admin or moderator it fails with BadRequest, called by anyone else it   *)
(* fails with Forbidden.                                                   *)
(***************************************************************************)
C24_CancelClosedOrder ==
  [][\A s \in Sessions, u \in Users, o \in 1..Len(orders) :
       orders[o].status \in TerminalStatuses =>
         /\ CancelOrderTurnedAway(s, o, u) =>
              /\ RoleOf(u) \notin {"admin", "moderator"}
              /\ sess'[s].res = "Forbidden"
              /\ OrderItemsStockTablesKept
         /\ CancelOrderReturns(s, o) =>
              /\ RoleOf(sess[s].actor) \in {"admin", "moderator"}
              /\ sess'[s].res = "BadRequest"
              /\ OrderItemsStockTablesKept]_vars

\* an admin's cancelOrder holds the row of a paid order that has a payment
C24_Witness ==
  \E s \in Sessions, o \in 1..Len(orders) :
    /\ sess[s].op = "cancelOrder" /\ sess[s].pc = "locked" /\ sess[s].ord = o
    /\ sess[s].actor = "adm"
    /\ sess[s].snapO # <<>> /\ sess[s].snapO[1].status = "paid"
    /\ orders[o].status = "paid"
    /\ \E n \in 1..Len(payments) : payments[n].order_id = o

RECURSIVE LiveQuantity(_, _, _, _)
\* the sum of the quantities of the non-cancelled items of order o and
\* product p among the first n rows
LiveQuantity(its, o, p, n) ==
  IF n = 0 THEN 0
  ELSE LiveQuantity(its, o, p, n - 1)
       + (IF its[n].order_id = o /\ its[n].product_id = p /\ its[n].status # "cancelled"
            THEN its[n].quantity
            ELSE 0)

\* session s commits a cancelOrder of order o
CancelOrderSucceeds(s, o) == CancelOrderReturns(s, o) /\ sess'[s].res = "ok"

\* what a successful cancelOrder of o does to stock, items and orders
CancelRestoresAndCloses(o) ==
  /\ \A p \in DOMAIN products :
       products'[p] =
         [products[p] EXCEPT !.stock_quantity =
            IF products[p].track_stock
              THEN @ + LiveQuantity(items, o, p, Len(items))
              ELSE @]
  /\ Len(items') = Len(items)
  /\ \A n \in 1..Len(items) :
       items'[n] = IF items[n].order_id = o
                     THEN [items[n] EXCEPT !.status = "cancelled"]
                     ELSE items[n]
  /\ orders' = [orders EXCEPT ![o].status = "cancelled"]

\* table row: available, no current order, no lock
TableIsFree(row) ==
  /\ row.status = "available"
  /\ row.current_order_id = NullId
  /\ row.locked_by_user_id = NullUser
  /\ row.locked_at = NullTime

ProcessPaymentArrives(s, u) ==
  \E o \in 1..MaxOrders, m \in {1, 2}, paid \in RequestAmounts :
    ProcessPaymentBegin(s, u, o, m, paid, 0)

PaymentReachesAmounts(s, o) ==
  /\ sess[s].op = "processPayment"
  /\ sess[s].pc = "locked"
  /\ sess[s].ord = o
  /\ sess'[s].pc = "idle"
  /\ sess[s].snapO # <<>>
  /\ sess[s].snapO[1].status = "open"
  /\ sess[s].method \in ActiveMethods

(***************************************************************************)
(* C27: in processPayment, amountDue is the order total at settlement and  *)
(* required = amountDue + tip; the call fails with BadRequest and changes  *)
(* nothing when amountPaid < required; otherwise it succeeds and the       *)
(* recorded change equals amountPaid - required and is never negative.     *)
(* Amounts are in thousandths, stored amounts in hundredths.               *)
(***************************************************************************)
C27_PaymentAmounts ==
  [][\A s \in Sessions, o \in 1..Len(orders) :
       PaymentReachesAmounts(s, o) =>
         LET amountDue == orders[o].total_amount * 10
             required == amountDue + sess[s].tip
             amountPaid == sess[s].paid
         IN IF amountPaid < required
              THEN /\ sess'[s].res = "BadRequest"
                   /\ payments' = payments /\ orders' = orders
                   /\ items' = items /\ tables' = tables
              ELSE /\ sess'[s].res = "ok"
                   /\ Len(payments') = Len(payments) + 1
                   /\ payments'[Len(payments')].amount_due * 10 = amountDue
                   /\ payments'[Len(payments')].change_amount * 10 = amountPaid - required
                   /\ payments'[Len(payments')].change_amount >= 0]_vars

\* session s commits a processPayment of order o
PaymentSucceeds(s, o) ==
  /\ sess[s].op = "processPayment"
  /\ sess[s].pc = "locked"
  /\ sess[s].ord = o
  /\ sess'[s].pc = "idle"
  /\ sess'[s].res = "ok"

(***************************************************************************)
(* C28: a successful processPayment creates one completed payment for the  *)
(* order, sets the order to paid, sets every non-cancelled item of the     *)
(* order to served while cancelled items stay cancelled, and, only when    *)
(* the order is table-bound, leaves the order's table with status          *)
(* available, current_order null and the lock cleared; no other table      *)
(* changes.                                                                *)
(***************************************************************************)
C28_PaymentEffects ==
  [][\A s \in Sessions, o \in 1..Len(orders) :
       PaymentSucceeds(s, o) =>
         /\ Len(payments') = Len(payments) + 1
         /\ \A n \in 1..Len(payments) : payments'[n] = payments[n]
         /\ payments'[Len(payments')].order_id = o
         /\ payments'[Len(payments')].status = "completed"
         /\ orders[o].status = "open"
         /\ orders' = [orders EXCEPT ![o].status = "paid"]
         /\ Len(items') = Len(items)
         /\ \A n \in 1..Len(items) :
              items'[n] = IF items[n].order_id = o /\ items[n].status # "cancelled"
                            THEN [items[n] EXCEPT !.status = "served"]
                            ELSE items[n]
         /\ \A t \in Tables :
              IF orders[o].table_id = t
                THEN TableIsFree(tables'[t])
                ELSE tables'[t] = tables[t]]_vars

\* a table-bound order with a removed and a live item has been paid: one
\* item is served, the other still cancelled, the table is free and the
\* order has its one payment
C28_Witness ==
  \E o \in 1..Len(orders) :
    /\ orders[o].status = "paid"
    /\ orders[o].table_id \in Tables
    /\ Len(items) = 2
    /\ items[1].order_id = o /\ items[1].status = "cancelled"
    /\ items[2].order_id = o /\ items[2].status = "served"
    /\ TableIsFree(tables[orders[o].table_id])
    /\ Len(payments) = 1
    /\ payments[1].order_id = o /\ payments[1].status = "completed"
    /\ sess[1].pc = "idle" /\ sess[1].res = "ok"

\* session s returns from processPayment without success
PaymentFails(s) ==
  /\ sess[s].op = "processPayment"
  /\ sess[s].pc # "idle"
  /\ sess'[s].pc = "idle"
  /\ sess'[s].res # "ok"

\* order o shows a part of a settlement without the rest of it
PartlySettled(o) ==
  LET settled == orders[o].status = "paid"
  IN \/ settled /\ PaymentsOf(o) = {}
     \/ ~settled /\ PaymentsOf(o) # {}
     \/ ~settled /\ \E n \in 1..Len(items) :
                      items[n].order_id = o /\ items[n].status = "served"
     \/ settled /\ \E n \in 1..Len(items) :
                     items[n].order_id = o /\ items[n].status \notin {"served", "cancelled"}
     \/ settled /\ \E t \in Tables : tables[t].current_order_id = o

\* the step applies the whole settlement of order o
WholeSettlement(o) ==
  /\ Len(payments') = Len(payments) + 1
  /\ \A n \in 1..Len(payments) : payments'[n] = payments[n]
  /\ payments'[Len(payments')].order_id = o
  /\ payments'[Len(payments')].status = "completed"
  /\ orders' = [orders EXCEPT ![o].status = "paid"]
  /\ items' = ServeItems(items, o)
  /\ \A t \in Tables :
       IF orders[o].table_id = t
         THEN TableIsFree(tables'[t])
         ELSE tables'[t] = tables[t]

(***************************************************************************)
(* C29 as stated: a processPayment call that fails at any step leaves the  *)
(* payments, the orders, the items and the tables as they were, and in no  *)
(* state does an order show only a part of a settlement.                   *)
(***************************************************************************)
C29_AsStated ==
  /\ [][\A s \in Sessions :
          PaymentFails(s) =>
            /\ payments' = payments
            /\ orders' = orders
            /\ items' = items
            /\ tables' = tables]_vars
  /\ [](\A o \in 1..Len(orders) : ~PartlySettled(o))

(***************************************************************************)
(* C29: settlement is all or nothing.  A processPayment call that is       *)
(* refused by one of its checks leaves the payments, the orders, the items *)
(* and the tables as they were; a call that ends with a server error has   *)
(* either left them as they were (rollback after any number of writes) or  *)
(* applied the whole settlement (failure after the commit); and in no      *)
(* state does an order show only a part of a settlement.                   *)
(***************************************************************************)
C29_SettlementAtomic ==
  /\ [][\A s \in Sessions :
          PaymentFails(s) =>
            \/ /\ payments' = payments
               /\ orders' = orders
               /\ items' = items
               /\ tables' = tables
            \/ /\ sess'[s].res = "InternalError"
               /\ WholeSettlement(sess[s].ord)]_vars
  /\ [](\A o \in 1..Len(orders) : ~PartlySettled(o))

\* a settlement of the table-bound order 1 with one item has been rolled
\* back: the order is still open, has no payment, its item is pending and
\* table 1 is still occupied by it
C29_Witness ==
  /\ \E s \in Sessions : sess[s].pc = "idle" /\ sess[s].res = "InternalError"
  /\ Len(orders) >= 1
  /\ orders[1].status = "open"
  /\ orders[1].table_id = 1
  /\ tables[1].status = "occupied"
  /\ tables[1].current_order_id = 1
  /\ PaymentsOf(1) = {}
  /\ Len(items) >= 1
  /\ items[1].order_id = 1
  /\ items[1].status = "pending"

\* the quantity of product p that request x of the pair has put on its order
PairSold(x, p) ==
  IF sess[x].res = "ok" /\ pair[1].reqs[x].prod = p THEN pair[1].reqs[x].qty ELSE 0

\* the results of the addItem calls a and then b, run one after the other
\* against an open order of the caller with stock0 units of product 1 left
SerialAddResults(stock0, a, b) ==
  LET short(x, stock) == Catalog[x.prod].track_stock /\ stock < x.qty
      ra == IF short(a, stock0) THEN "BadRequest" ELSE "ok"
      left == IF ra = "ok" /\ a.prod = 1 THEN stock0 - a.qty ELSE stock0
      rb == IF short(b, left) THEN "BadRequest" ELSE "ok"
  IN [first |-> ra, second |-> rb]

\* the item row that request x of the pair inserts
PairItem(x) ==
  LET r == pair[1].reqs[x]
  IN NewItem(r.ord, r.prod, r.qty, Catalog[r.prod].price,
             Catalog[r.prod].price * r.qty)

(***************************************************************************)
(* C30: two concurrent addItem calls on the same order, both of which find *)
(* the order, are serialized.  Their results are those of one call run after the other; the stock of   *)
(* the tracked product is what it was minus the quantities of the calls    *)
(* that succeeded and never negative; and when both succeed the order has  *)
(* both items and its totals are computed over both.                       *)
(***************************************************************************)
C30_ConcurrentAddItemSerialized ==
  (PairDone /\ PairOnOrder("addItem", 1) /\ Results("NotFound") = {}) =>
    LET a == pair[1].reqs[1]
        b == pair[1].reqs[2]
        stock0 == products[1].stock_quantity + PairSold(1, 1) + PairSold(2, 1)
        n == Len(items)
    IN /\ products[1].stock_quantity >= 0
       /\ products[1].stock_quantity = InitStock - SumQuantities(items, 1, n)
       /\ \/ /\ sess[1].res = SerialAddResults(stock0, a, b).first
             /\ sess[2].res = SerialAddResults(stock0, a, b).second
          \/ /\ sess[2].res = SerialAddResults(stock0, b, a).first
             /\ sess[1].res = SerialAddResults(stock0, b, a).second
       /\ Results("ok") = Sessions =>
            /\ n >= 2
            /\ products[1].stock_quantity =
                 InitStock - SumQuantities(items, 1, n - 2)
                   - PairSold(1, 1) - PairSold(2, 1)
            /\ <<items[n - 1], items[n]>> \in {<<PairItem(1), PairItem(2)>>,
                                              <<PairItem(2), PairItem(1)>>}
            /\ orders[1].subtotal = SumSubtotals(items, 1, n)
            /\ orders[1].subtotal >= items[n - 1].subtotal + items[n].subtotal
            /\ orders[1].total_amount = orders[1].subtotal + orders[1].tax_amount

\* two concurrent addItem calls of one unit of the tracked product each have
\* both succeeded: the stock went from 2 to 0 and the order holds both items
C30_Witness ==
  /\ PairDone /\ PairOnOrder("addItem", 1)
  /\ \A x \in Sessions : pair[1].reqs[x].prod = 1 /\ pair[1].reqs[x].qty = 1
  /\ Results("ok") = Sessions
  /\ products[1].stock_quantity = InitStock - 2
  /\ Len(items) = 2
  /\ orders[1].subtotal = 2 * Catalog[1].price

\* session s writes the row of its order in updateOrder
UpdateOrderWrites(s) ==
  /\ sess[s].op = "updateOrder"
  /\ sess[s].pc = "read"
  /\ sess'[s].pc = "idle"
  /\ sess'[s].res = "ok"

\* session s writes the row of its table in deleteTable
DeleteTableWrites(s) ==
  /\ sess[s].op = "deleteTable"
  /\ sess[s].pc = "read"
  /\ sess'[s].pc = "idle"
  /\ sess'[s].res = "ok"

(***************************************************************************)
(* C31: every operation that modifies a table or order row re-validates    *)
(* its checks under the row lock: updateOrder writes only to an order that *)
(* is open at the time of the write, and deleteTable deactivates only a    *)
(* table that has no current order at the time of the write, so it never   *)
(* overwrites the status a concurrent createOrder has written.             *)
(***************************************************************************)
C31_ChecksHoldAtWrite ==
  [][\A s \in Sessions :
       /\ UpdateOrderWrites(s) => orders[sess[s].ord].status = "open"
       /\ DeleteTableWrites(s) => tables[sess[s].tbl].current_order_id = NullId]_vars

\* the handlers that change stock under the row lock of their order
StockLockers == {"addItem", "updateItem", "removeItem", "cancelOrder"}

(***************************************************************************)
(* C32: the stock_quantity of a product changes only in the commit of a    *)
(* transaction that holds an order row lock (addItem, updateItem,          *)
(* removeItem, cancelOrder); no operation changes it standalone.           *)
(***************************************************************************)
C32_StockOnlyUnderOrderLock ==
  [][(\E p \in DOMAIN products :
        products'[p].stock_quantity # products[p].stock_quantity)
       => \E s \in Sessions :
            /\ sess[s].op \in StockLockers
            /\ HoldsOrderRow(s, sess[s].ord)
            /\ sess'[s].pc = "idle"
            /\ sess'[s].res = "ok"]_vars

\* the operations that change durable state
MutatingOperations ==
  {"lockTable", "unlockTable", "createOrder", "addItem", "updateItem",
   "removeItem", "updateOrder", "cancelOrder", "processPayment",
   "updateTableStatus"}

\* session s returns from one of the mutating operations with result r
MutationReturns(s, r) ==
  /\ sess[s].op \in MutatingOperations
  /\ sess[s].pc # "idle"
  /\ sess'[s].pc = "idle"
  /\ sess'[s].res = r

(***************************************************************************)
(* C33: every successful lockTable, unlockTable, createOrder, addItem,     *)
(* updateItem, removeItem, updateOrder, cancelOrder, processPayment and    *)
(* updateTableStatus emits exactly one audit event before it returns, and  *)
(* an operation that fails without having made its mutation emits none.    *)
(***************************************************************************)
C33_OneAuditPerMutation ==
  [][\A s \in Sessions :
       /\ MutationReturns(s, "ok") => logAuditCalls(s) = 1
       /\ (\E r \in {"BadRequest", "NotFound", "Forbidden", "Conflict"} :
             MutationReturns(s, r)) => logAuditCalls(s) = 0]_vars

(***************************************************************************)
(* C34: the stock_quantity of a tracked product is never negative, also    *)
(* when addItem and updateItem calls on different orders that consume the  *)
(* same product run concurrently.                                          *)
(***************************************************************************)
C34_StockNeverNegative ==
  \A p \in DOMAIN products :
    products[p].track_stock => products[p].stock_quantity >= 0

(***************************************************************************)
(* C35: removeItem on an item that is already cancelled, in an open order  *)
(* the actor may modify, fails with BadRequest and restores nothing: the   *)
(* stock, the order totals and the items stay as the first removal left    *)
(* them.                                                                   *)
(***************************************************************************)
C35_RemoveCancelledRejected ==
  [][\A s \in Sessions, i \in 1..MaxItems :
       (ItemCallReturns(s, "removeItem", i) /\ sess[s].snapI[1].status = "cancelled")
         => /\ sess'[s].res = "BadRequest"
            /\ ItemsTotalsStockKept]_vars

(***************************************************************************)
(* C36: in every state, the amount_due of every payment equals the total   *)
(* of its order: no addItem, updateItem or removeItem, issued after the    *)
(* payment or concurrently with it, changes the total of a paid order.     *)
(***************************************************************************)
C36_AmountDueIsOrderTotal ==
  \A n \in 1..Len(payments) :
    payments[n].amount_due = orders[payments[n].order_id].total_amount

\* processPayment and an item operation ran concurrently on order 1: the
\* payment went through, the item operation was refused although the stock
\* would have allowed it, and the payment's amount_due is the order's total
C36_Witness ==
  /\ PairDone
  /\ \E x \in Sessions :
       /\ pair[1].reqs[x].op = "processPayment"
       /\ sess[x].res = "ok"
       /\ \A y \in Sessions \ {x} :
            /\ pair[1].reqs[y].op \in {"addItem", "updateItem", "removeItem"}
            /\ pair[1].reqs[y].ord = 1
            /\ sess[y].res = "BadRequest"
  /\ products[1].stock_quantity >= 1
  /\ Len(payments) = 1
  /\ payments[1].order_id = 1
  /\ payments[1].amount_due > 0
  /\ payments[1].amount_due = orders[1].total_amount

\* the pair is a cancelOrder and a processPayment of order o
PairCancelAndPay(o) ==
  /\ pair # <<>>
  /\ {pair[1].reqs[x].op : x \in Sessions} = {"cancelOrder", "processPayment"}
  /\ \A x \in Sessions : pair[1].reqs[x].ord = o

\* order o was the open current order of its table when the pair began
PairFoundOpenOnTable(o) ==
  /\ o \in 1..Len(orders)
  /\ orders[o].table_id \in Tables
  /\ pair[1].tables[orders[o].table_id].status = "occupied"
  /\ pair[1].tables[orders[o].table_id].current_order_id = o

HasOpenCurrentOrder(row, o) ==
  /\ row.current_order_id = o
  /\ o \in 1..Len(orders)
  /\ orders[o].status = "open"

(***************************************************************************)
(* C38: while a table has an open order as its current order, the table's  *)
(* lock holder is the actor who created that order, and no lockTable call, *)
(* at any lock age, changes the lock holder of such a table.               *)
(***************************************************************************)
C38_OccupiedTableKeepsHolder ==
  /\ [](\A t \in Tables, o \in 1..MaxOrders :
          HasOpenCurrentOrder(tables[t], o) =>
            tables[t].locked_by_user_id = orders[o].server_id)
  /\ [][\A s \in Sessions, t \in Tables, u \in Users, o \in 1..MaxOrders :
          (LockTableReturns(s, t, u) /\ HasOpenCurrentOrder(tables[t], o))
            => tables'[t].locked_by_user_id = tables[t].locked_by_user_id]_vars

====
